---- MODULE Spec2Model ----
(***************************************************************************)
(* Limiter V2 (plugins/obs-filters/limiter-v2-filter.c): the filter's      *)
(* instance data, its update / filter_audio / destroy callbacks and the    *)
(* DSP helpers they call, as a state machine.                              *)
(*                                                                         *)
(* Numbers.  A C float is modelled as a fixed-point integer, ONE units to  *)
(* 1.0f, with the three non-finite values as integers outside the finite   *)
(* range: every float operation goes through FAdd / FMul / ... below,      *)
(* which round to nearest, overflow to an infinity and propagate NaN as    *)
(* IEEE arithmetic does.  Decibel quantities are held in 1/DB_ONE dB and   *)
(* millisecond quantities in 1/MS_ONE ms.  SMALL_EPSILON (1e-10f) is below *)
(* one unit of the representation and is therefore 0 units.                *)
(***************************************************************************)
EXTENDS Integers, Sequences, FiniteSets, TLC

\* ------------------------------------------------------------------------
\* Float representation
\* ------------------------------------------------------------------------

ONE == 10000

DB_ONE == 100

MS_ONE == 10

\* largest finite magnitude of the representation (FLT_MAX)
FLT_MAX == 200000

PInf == FLT_MAX + 1

NInf == 0 - (FLT_MAX + 1)

NaN == FLT_MAX + 2

isfinite(x) == x >= 0 - FLT_MAX /\ x <= FLT_MAX

Abs(n) == IF n < 0 THEN 0 - n ELSE n

Sign(n) == IF n < 0 THEN 0 - 1 ELSE IF n > 0 THEN 1 ELSE 0

\* n / d rounded to nearest (ties away from zero), d > 0
RoundDiv(n, d) == IF n >= 0 THEN (n + d \div 2) \div d
                           ELSE 0 - ((0 - n + d \div 2) \div d)

\* an exact result brought back into the representation
Norm(v) == IF v > FLT_MAX THEN PInf ELSE IF v < 0 - FLT_MAX THEN NInf ELSE v

FNeg(a) == IF a = NaN THEN NaN ELSE 0 - a

FAdd(a, b) ==
    IF a = NaN \/ b = NaN THEN NaN
    ELSE IF (a = PInf /\ b = NInf) \/ (a = NInf /\ b = PInf) THEN NaN
    ELSE IF a = PInf \/ b = PInf THEN PInf
    ELSE IF a = NInf \/ b = NInf THEN NInf
    ELSE Norm(a + b)

FSub(a, b) == FAdd(a, FNeg(b))

FMul(a, b) ==
    IF a = NaN \/ b = NaN THEN NaN
    ELSE IF a = 0 \/ b = 0
         THEN (IF isfinite(a) /\ isfinite(b) THEN 0 ELSE NaN)
    ELSE IF ~isfinite(a) \/ ~isfinite(b)
         THEN (IF Sign(a) * Sign(b) > 0 THEN PInf ELSE NInf)
    ELSE IF Abs(a) > (FLT_MAX * ONE + ONE \div 2) \div Abs(b)
         THEN (IF Sign(a) * Sign(b) > 0 THEN PInf ELSE NInf)
    ELSE Norm(RoundDiv(a * b, ONE))

fabsf(a) == IF a = NaN THEN NaN ELSE Abs(a)

\* C comparisons: false whenever an operand is NaN
FLt(a, b) == a # NaN /\ b # NaN /\ a < b

FGt(a, b) == FLt(b, a)

\* fmaxf / fminf return the other operand when one is NaN
fmaxf(a, b) == IF a = NaN THEN b ELSE IF b = NaN THEN a ELSE IF a < b THEN b ELSE a

fminf(a, b) == IF a = NaN THEN b ELSE IF b = NaN THEN a ELSE IF a < b THEN a ELSE b

\* ------------------------------------------------------------------------
\* libm: exp, and the dB conversions of media-io/audio-math.h
\* ------------------------------------------------------------------------

\* terms of the Taylor series of exp(-y), 0 <= y <= ONE
ExpTerms == 12

RECURSIVE ExpSeries(_, _, _, _)
ExpSeries(y, k, term, acc) ==
    IF k > ExpTerms \/ term = 0 THEN acc
    ELSE LET t == RoundDiv(term * y, k * ONE)
         IN ExpSeries(y, k + 1, t, IF k % 2 = 1 THEN acc - t ELSE acc + t)

\* exp(-y) for y >= 0 (y in ONE units), by halving the argument down to the
\* range of the series
RECURSIVE ExpNeg(_)
ExpNeg(y) ==
    IF y >= 10 * ONE THEN 0
    ELSE IF y > ONE
         THEN LET h == ExpNeg(y \div 2)
              IN IF y % 2 = 0 THEN RoundDiv(h * h, ONE)
                 ELSE RoundDiv(RoundDiv(h * h, ONE) * (ONE - 1), ONE)
    ELSE ExpSeries(y, 1, ONE, ONE)

\* ln(10)/20 in 1/100000
LN10_20 == 11513

\* powf(10, db / 20) for a finite db (in 1/DB_ONE dB)
Pow10Db(db) ==
    LET y == RoundDiv(Abs(db) * LN10_20, (100000 \div ONE) * DB_ONE)
        e == ExpNeg(y)
    IN IF db <= 0 THEN e
       ELSE IF e = 0 THEN PInf
       ELSE Norm(RoundDiv(ONE * ONE, e))

DB_LO == 0 - 90 * DB_ONE

DB_HI == 30 * DB_ONE

\* Pow10Db over DB_LO .. DB_HI, evaluated once
Pow10DbTable == [d \in DB_LO .. DB_HI |-> Pow10Db(d)]

\* db_to_mul(db) = isfinite(db) ? powf(10, db / 20) : 0
db_to_mul(db) ==
    IF ~isfinite(db) THEN 0
    ELSE IF db >= DB_LO /\ db <= DB_HI THEN Pow10DbTable[db]
    ELSE Pow10Db(db)

\* the largest d in lo..hi with db_to_mul(d) <= x
RECURSIVE DbSearch(_, _, _)
DbSearch(x, lo, hi) ==
    IF lo >= hi THEN lo
    ELSE LET mid == (lo + hi + 1) \div 2
         IN IF db_to_mul(mid) <= x THEN DbSearch(x, mid, hi)
                                   ELSE DbSearch(x, lo, mid - 1)

\* mul_to_db(mul) = 20 log10(mul): the dB value whose linear value is nearest
mul_to_db(x) ==
    IF x = NaN \/ x < 0 THEN NaN
    ELSE IF x = 0 THEN NInf
    ELSE IF x = PInf THEN PInf
    ELSE LET d == DbSearch(x, DB_LO, DB_HI)
         IN IF d < DB_HI /\ db_to_mul(d + 1) - x < x - db_to_mul(d) THEN d + 1 ELSE d

\* ------------------------------------------------------------------------
\* Definitions and constants (limiter-v2-filter.c, lines 116-151)
\* ------------------------------------------------------------------------

MIN_THRESHOLD_DB == 0 - 60 * DB_ONE

MAX_THRESHOLD_DB == 0 * DB_ONE

MIN_RELEASE_MS == 1 * MS_ONE

MAX_RELEASE_MS == 1000 * MS_ONE

MIN_OUTPUT_GAIN_DB == 0 - 20 * DB_ONE

MAX_OUTPUT_GAIN_DB == 20 * DB_ONE

MIN_LOOKAHEAD_MS == MS_ONE \div 10

MAX_LOOKAHEAD_MS == 20 * MS_ONE

FIXED_ATTACK_TIME_MS == 1 * MS_ONE

MS_IN_S == 1000

SMALL_EPSILON == 0

NUM_ENV_HISTORY == 3

ADAPT_SENSITIVITY_THRESHOLD == (5 * ONE) \div 100

ADAPT_SPEED_FACTOR == 15 * ONE

ADAPT_MAX_SPEEDUP_FACTOR == 3 * ONE

MIN_FAST_RELEASE_MS == 1 * MS_ONE

TP_OVERSAMPLE_FACTOR == 4

MAX_AUDIO_CHANNELS == 8

INITIAL_ENV_BUF_MS == 20

FALLBACK_SAMPLE_RATE == 48000

FALLBACK_BLOCK == 1024

Channels == 0 .. (MAX_AUDIO_CHANNELS - 1)

Min(a, b) == IF a < b THEN a ELSE b

Max(a, b) == IF a < b THEN b ELSE a

Zeros(n) == [i \in 1 .. n |-> 0]

\* ------------------------------------------------------------------------
\* util/circlebuf.h: a ring as its content, front first, and its capacity,
\* both counted in samples
\* ------------------------------------------------------------------------

EmptyRing == [data |-> <<>>, capacity |-> 0]

circlebuf_free(cb) == EmptyRing

\* reserve: the capacity is raised unless the allocation fails
circlebuf_reserve(cb, capacity, ok) ==
    IF capacity <= cb.capacity \/ ~ok THEN cb ELSE [cb EXCEPT !.capacity = capacity]

\* push_back grows the ring (doubling, or to the size needed) when the new
\* content no longer fits
circlebuf_push_back(cb, samples) ==
    LET d == cb.data \o samples
    IN [data |-> d,
        capacity |-> IF Len(d) <= cb.capacity THEN cb.capacity
                     ELSE Max(2 * cb.capacity, Len(d))]

circlebuf_pop_front(cb, n) ==
    [out |-> SubSeq(cb.data, 1, n),
     cb |-> [cb EXCEPT !.data = SubSeq(cb.data, n + 1, Len(cb.data))]]

\* ------------------------------------------------------------------------
\* Helper functions
\* ------------------------------------------------------------------------

\* the coefficient with its sign turned: a value in (-1, 0]
gain_coefficient_negated(sample_rate, time_ms) ==
    IF sample_rate = 0 \/ time_ms <= 0 THEN 0
    ELSE 0 - ExpNeg(RoundDiv(ONE * MS_IN_S * MS_ONE, sample_rate * time_ms))

\* gain_coefficient: exp(-1 / (sample_rate * time_sec + eps)), time in 1/MS_ONE ms
gain_coefficient(sample_rate, time_ms) ==
    IF sample_rate = 0 \/ time_ms <= 0 THEN 0
    ELSE ExpNeg(RoundDiv(ONE * MS_IN_S * MS_ONE, sample_rate * time_ms))

\* calculate_env_change_rate: the two differences taken from the write cursor on
calculate_env_change_rate(c) ==
    LET d(i) == fabsf(FSub(c.prev_env_vals[(c.prev_env_pos + i + 1) % NUM_ENV_HISTORY],
                           c.prev_env_vals[(c.prev_env_pos + i) % NUM_ENV_HISTORY]))
        change_sum == FAdd(FAdd(0, d(0)), d(1))
    IN IF isfinite(change_sum) THEN RoundDiv(change_sum, NUM_ENV_HISTORY - 1)
       ELSE change_sum

\* the buffer resized to the request whenever the lengths differ: it shrinks
\* for a shorter block
ensure_env_buffer_exact(c, num_samples, ok) ==
    IF c.envelope_buf_len # num_samples
    THEN IF ~ok
         THEN [ok |-> FALSE, grown |-> FALSE,
               cd |-> [c EXCEPT !.envelope_buf = <<>>, !.envelope_buf_len = 0]]
         ELSE [ok |-> TRUE, grown |-> TRUE,
               cd |-> [c EXCEPT !.envelope_buf =
                                    [i \in 1 .. num_samples |->
                                        IF i <= Len(c.envelope_buf)
                                        THEN c.envelope_buf[i] ELSE 0],
                                !.envelope_buf_len = num_samples]]
    ELSE [ok |-> c.envelope_buf # <<>>, grown |-> FALSE, cd |-> c]

\* ensure_env_buffer: grow to num_samples when shorter; ok is the allocator's
\* answer.  An empty envelope_buf is the NULL pointer.
ensure_env_buffer(c, num_samples, ok) ==
    IF c.envelope_buf_len < num_samples
    THEN IF ~ok
         THEN [ok |-> FALSE, grown |-> FALSE,
               cd |-> [c EXCEPT !.envelope_buf = <<>>, !.envelope_buf_len = 0]]
         ELSE [ok |-> TRUE, grown |-> TRUE,
               cd |-> [c EXCEPT !.envelope_buf =
                                    [i \in 1 .. num_samples |->
                                        IF i <= Len(c.envelope_buf)
                                        THEN c.envelope_buf[i] ELSE 0],
                                !.envelope_buf_len = num_samples]]
    ELSE [ok |-> c.envelope_buf # <<>>, grown |-> FALSE, cd |-> c]

\* a mis-sized zero block: one sample short
zero_block_short(c) == Zeros(c.lookahead_samples - 1)

\* a mis-sized zero block: one sample long
zero_block_long(c) == Zeros(c.lookahead_samples + 1)

\* the zero block update_lookahead_buffers pushes into each new ring
zero_block(c) == Zeros(c.lookahead_samples)

FreeRings(bufs, n) ==
    [i \in Channels |-> IF i < n THEN circlebuf_free(bufs[i]) ELSE bufs[i]]

\* update_lookahead_buffers.  alloc.zero_ok: the zero block is allocated;
\* alloc.rings_ok: how many rings can be reserved before a reserve falls short.
update_lookahead_buffers(c0, alloc) ==
    LET c1 == IF c0.lookahead_buffers_initialized
              THEN [c0 EXCEPT !.lookahead_circbuf = FreeRings(@, c0.num_channels),
                              !.lookahead_buffers_initialized = FALSE]
              ELSE c0
    IN IF ~c1.lookahead_enabled \/ c1.lookahead_samples = 0 \/ c1.num_channels = 0
       THEN [ok |-> TRUE, cd |-> c1]
       ELSE
       LET estimate == (c1.sample_rate * INITIAL_ENV_BUF_MS) \div MS_IN_S + 1
           block_estimate == IF estimate = 0 THEN FALLBACK_BLOCK ELSE estimate
           required_capacity == c1.lookahead_samples + block_estimate
           \* the channel at which the loop breaks, num_channels when it does not
           stop == IF \E i \in Channels : i < c1.num_channels /\ i >= alloc.rings_ok
                   THEN Min(alloc.rings_ok, MAX_AUDIO_CHANNELS)
                   ELSE IF c1.num_channels > MAX_AUDIO_CHANNELS
                        THEN MAX_AUDIO_CHANNELS ELSE c1.num_channels
           success == stop >= c1.num_channels
           built == [i \in Channels |->
                       IF i < stop
                       THEN circlebuf_push_back(
                                circlebuf_reserve(EmptyRing, required_capacity, TRUE),
                                zero_block(c1))
                       ELSE IF i = stop /\ ~success THEN circlebuf_free(EmptyRing)
                       ELSE c1.lookahead_circbuf[i]]
       IN IF ~alloc.zero_ok THEN [ok |-> FALSE, cd |-> c1]
          ELSE IF ~success
          THEN [ok |-> FALSE,
                cd |-> [c1 EXCEPT !.lookahead_circbuf = FreeRings(built, c1.num_channels),
                                  !.lookahead_buffers_initialized = FALSE]]
          ELSE [ok |-> TRUE,
                cd |-> [c1 EXCEPT !.lookahead_circbuf = built,
                                  !.lookahead_buffers_initialized = TRUE]]

\* the two samples added without their weights
interpolated_sample_unweighted(j, current_sample, next_sample) ==
    FAdd(current_sample, next_sample)

\* (1 - t) * current_sample + t * next_sample with t = j / TP_OVERSAMPLE_FACTOR
interpolated_sample(j, current_sample, next_sample) ==
    FAdd(FMul(ONE - (j * ONE) \div TP_OVERSAMPLE_FACTOR, current_sample),
         FMul((j * ONE) \div TP_OVERSAMPLE_FACTOR, next_sample))

\* the loop of get_inter_sample_peak_estimate from point j on
RECURSIVE peak_loop(_, _, _, _)
peak_loop(max_abs_val, j, current_sample, next_sample) ==
    IF j >= TP_OVERSAMPLE_FACTOR THEN max_abs_val
    ELSE peak_loop(IF isfinite(interpolated_sample(j, current_sample, next_sample))
                   THEN fmaxf(max_abs_val,
                              fabsf(interpolated_sample(j, current_sample, next_sample)))
                   ELSE max_abs_val,
                   j + 1, current_sample, next_sample)

\* get_inter_sample_peak_estimate
get_inter_sample_peak_estimate(current_sample, next_sample) ==
    IF ~isfinite(current_sample) \/ ~isfinite(next_sample) THEN 0
    ELSE peak_loop(fmaxf(fabsf(current_sample), fabsf(next_sample)), 1,
                   current_sample, next_sample)

\* ------------------------------------------------------------------------
\* Core processing functions
\* ------------------------------------------------------------------------

\* the release time divided by the raw speed-up, rate * 15, without its clamp
fast_release_unclamped(c, env_change_rate) ==
    Max(RoundDiv(c.release_time_ms * ONE, FMul(env_change_rate, ADAPT_SPEED_FACTOR)),
        MIN_FAST_RELEASE_MS)

\* release time / release_factor, not below MIN_FAST_RELEASE_MS (lines 456-457)
fast_release_time_ms(c, env_change_rate) ==
    Max(RoundDiv(c.release_time_ms * ONE,
                 fmaxf(ONE, fminf(ADAPT_MAX_SPEEDUP_FACTOR,
                                  FMul(env_change_rate, ADAPT_SPEED_FACTOR)))),
        MIN_FAST_RELEASE_MS)

\* the release coefficient of one sample (lines 451-460); it reads only fields
\* that analyze_envelope writes after its loops
current_release_coeff(c) ==
    IF c.adaptive_release_enabled
           /\ FGt(calculate_env_change_rate(c), ADAPT_SENSITIVITY_THRESHOLD)
    THEN gain_coefficient(c.sample_rate,
                          fast_release_time_ms(c, calculate_env_change_rate(c)))
    ELSE c.release_coeff

\* the level with the block treated as a loop: the last sample is interpolated
\* with the first sample of the block
input_env_wrapped(c, x, i, num_samples) ==
    LET v == IF c.true_peak_enabled
             THEN get_inter_sample_peak_estimate(x[i + 1], x[((i + 1) % num_samples) + 1])
             ELSE fabsf(x[i + 1])
    IN IF ~isfinite(v) THEN 0 ELSE v

\* the instantaneous level of sample i (0-based) of one channel (lines 443-449)
input_env(c, x, i, num_samples) ==
    LET v == IF c.true_peak_enabled /\ i < num_samples - 1
             THEN get_inter_sample_peak_estimate(x[i + 1], x[i + 2])
             ELSE fabsf(x[i + 1])
    IN IF ~isfinite(v) THEN 0 ELSE v

\* the smoothing without its release branch: the envelope only ever rises
smooth_hold(attack_coeff, release_coeff, current_env, in) ==
    IF FLt(current_env, in)
    THEN FAdd(in, FMul(attack_coeff, FSub(current_env, in)))
    ELSE current_env

\* the smoothing with its coefficients exchanged: release while the level is
\* above the envelope, attack otherwise
smooth_swapped(attack_coeff, release_coeff, current_env, in) ==
    LET e == FAdd(in, FMul(IF FLt(current_env, in) THEN release_coeff ELSE attack_coeff,
                           FSub(current_env, in)))
    IN IF ~isfinite(e) \/ FLt(e, SMALL_EPSILON) THEN 0 ELSE e

\* one step of the one-pole smoothing (lines 462-467)
smooth(attack_coeff, release_coeff, current_env, in) ==
    LET e == FAdd(in, FMul(IF FLt(current_env, in) THEN attack_coeff ELSE release_coeff,
                           FSub(current_env, in)))
    IN IF ~isfinite(e) \/ FLt(e, SMALL_EPSILON) THEN 0 ELSE e

\* the inner loop with none of its checks: the level is |x| as it comes, the
\* smoothing result is stored as it is
RECURSIVE channel_loop_unchecked(_, _, _, _, _, _, _)
channel_loop_unchecked(c, release_coeff, x, num_samples, i, current_env, envelope_buf) ==
    IF i >= num_samples THEN envelope_buf
    ELSE LET in == fabsf(x[i + 1])
             e == FAdd(in, FMul(IF FLt(current_env, in) THEN c.attack_coeff
                                ELSE release_coeff,
                                FSub(current_env, in)))
         IN channel_loop_unchecked(c, release_coeff, x, num_samples, i + 1, e,
                                   [envelope_buf EXCEPT ![i + 1] = e])

\* the inner loop over one channel: envelope_buf after the samples from i on
RECURSIVE channel_loop(_, _, _, _, _, _, _)
channel_loop(c, release_coeff, x, num_samples, i, current_env, envelope_buf) ==
    IF i >= num_samples THEN envelope_buf
    ELSE LET e == smooth(c.attack_coeff, release_coeff, current_env,
                         input_env(c, x, i, num_samples))
         IN channel_loop(c, release_coeff, x, num_samples, i + 1, e,
                         [envelope_buf EXCEPT ![i + 1] = fmaxf(@, e)])

\* the outer loop with the channels chained: each channel's smoothing starts
\* from the envelope the channel before it ended on
RECURSIVE analyze_loop_chained(_, _, _, _, _, _)
analyze_loop_chained(c, release_coeff, samples, num_samples, chan, envelope_buf) ==
    IF chan >= c.num_channels THEN envelope_buf
    ELSE IF chan >= MAX_AUDIO_CHANNELS \/ samples[chan] = <<>>
         THEN analyze_loop_chained(c, release_coeff, samples, num_samples, chan + 1,
                                   envelope_buf)
    ELSE analyze_loop_chained(
             [c EXCEPT !.envelope =
                           channel_loop(c, release_coeff, samples[chan], num_samples, 0,
                                        c.envelope, Zeros(num_samples))[num_samples]],
             release_coeff, samples, num_samples, chan + 1,
             channel_loop(c, release_coeff, samples[chan], num_samples, 0,
                          c.envelope, envelope_buf))

\* the outer loop with the history written inside it: each channel's final
\* envelope is pushed as soon as its loop ends, and the release coefficient of
\* the next channel is taken from the history as it then stands
RECURSIVE analyze_loop_pushing(_, _, _, _, _, _)
analyze_loop_pushing(c, release_coeff, samples, num_samples, chan, envelope_buf) ==
    IF chan >= c.num_channels THEN envelope_buf
    ELSE IF chan >= MAX_AUDIO_CHANNELS \/ samples[chan] = <<>>
         THEN analyze_loop_pushing(c, release_coeff, samples, num_samples, chan + 1,
                                   envelope_buf)
    ELSE LET buf == channel_loop(c, release_coeff, samples[chan], num_samples, 0,
                                 c.envelope, envelope_buf)
             pos == (c.prev_env_pos + 1) % NUM_ENV_HISTORY
             pushed == [c EXCEPT !.prev_env_pos = pos,
                                 !.prev_env_vals = [@ EXCEPT ![pos] = buf[num_samples]]]
         IN analyze_loop_pushing(pushed, current_release_coeff(pushed), samples,
                                 num_samples, chan + 1, buf)

\* the outer loop over the channels from chan on
RECURSIVE analyze_loop(_, _, _, _, _, _)
analyze_loop(c, release_coeff, samples, num_samples, chan, envelope_buf) ==
    IF chan >= c.num_channels THEN envelope_buf
    ELSE IF chan >= MAX_AUDIO_CHANNELS \/ samples[chan] = <<>>
         THEN analyze_loop(c, release_coeff, samples, num_samples, chan + 1, envelope_buf)
    ELSE analyze_loop(c, release_coeff, samples, num_samples, chan + 1,
                      channel_loop(c, release_coeff, samples[chan], num_samples, 0,
                                   c.envelope, envelope_buf))

\* the envelope written to the slot under the cursor, the cursor left in place
store_envelope_in_place(c, envelope_buf, num_samples) ==
    LET envelope == IF ~isfinite(envelope_buf[num_samples]) THEN 0
                    ELSE envelope_buf[num_samples]
    IN [c EXCEPT !.envelope_buf = envelope_buf,
                 !.envelope = envelope,
                 !.prev_env_vals[c.prev_env_pos] = envelope]

\* lines 469-473: the block's last envelope value becomes the envelope and is
\* written to the history ring
store_envelope(c, envelope_buf, num_samples) ==
    LET envelope == IF ~isfinite(envelope_buf[num_samples]) THEN 0
                    ELSE envelope_buf[num_samples]
        pos == (c.prev_env_pos + 1) % NUM_ENV_HISTORY
    IN [c EXCEPT !.envelope_buf = envelope_buf,
                 !.envelope = envelope,
                 !.prev_env_pos = pos,
                 !.prev_env_vals[pos] = envelope]

\* analyze_envelope once the scratch buffer is long enough (lines 433-473)
analyze(c, samples, num_samples) ==
    store_envelope(c,
        analyze_loop(c, current_release_coeff(c), samples, num_samples, 0,
                     [i \in 1 .. c.envelope_buf_len |->
                         IF i <= num_samples THEN 0 ELSE c.envelope_buf[i]]),
        num_samples)

\* an analysis that moves the history cursor on even when the buffer could
\* not be grown
analyze_envelope_advancing(c0, samples, num_samples, env_ok) ==
    IF num_samples = 0 THEN c0
    ELSE LET r == ensure_env_buffer(c0, num_samples, env_ok)
         IN IF ~r.ok
            THEN [r.cd EXCEPT !.prev_env_pos = (@ + 1) % NUM_ENV_HISTORY]
            ELSE analyze(r.cd, samples, num_samples)

\* analyze_envelope; env_ok is the allocator's answer should the buffer grow
analyze_envelope(c0, samples, num_samples, env_ok) ==
    IF num_samples = 0 THEN c0
    ELSE LET r == ensure_env_buffer(c0, num_samples, env_ok)
         IN IF ~r.ok THEN r.cd ELSE analyze(r.cd, samples, num_samples)

\* the reduction taken from the envelope's excess over 0 dB instead of its
\* excess over the threshold
gain_reduction_from_zero(threshold_db, env_lin) ==
    LET env_db == mul_to_db(env_lin)
    IN IF FGt(env_lin, SMALL_EPSILON) /\ isfinite(env_db) /\ FGt(env_db, threshold_db)
       THEN LET m == db_to_mul(fminf(0, FSub(0, env_db)))
            IN IF ~isfinite(m) THEN 0 ELSE m
       ELSE ONE

\* lines 502-510: the multiplier that brings an envelope above the threshold
\* down to it
gain_reduction_multiplier(threshold_db, env_lin) ==
    LET env_db == mul_to_db(env_lin)
    IN IF FGt(env_lin, SMALL_EPSILON) /\ isfinite(env_db) /\ FGt(env_db, threshold_db)
       THEN LET m == db_to_mul(fminf(0, FSub(threshold_db, env_db)))
            IN IF ~isfinite(m) THEN 0 ELSE m
       ELSE ONE

\* the gain process_compression derives from one envelope value (lines 500-513)
final_gain(c, env_lin) ==
    LET g == FMul(gain_reduction_multiplier(c.threshold_db, env_lin), c.output_gain)
    IN IF ~isfinite(g) THEN 0 ELSE g

\* the store to one sample (lines 515-521)
apply_gain(sample, gain) == IF isfinite(sample) THEN FMul(sample, gain) ELSE 0

\* the gain of every index of the block
block_gain(c, num_samples) == [i \in 1 .. num_samples |-> final_gain(c, c.envelope_buf[i])]

apply_block_gain(c, samples, num_samples, gain) ==
    [ch \in Channels |->
        IF ch < c.num_channels /\ samples[ch] # <<>>
        THEN [i \in 1 .. num_samples |-> apply_gain(samples[ch][i], gain[i])]
        ELSE samples[ch]]

\* process_compression: the caller's planes after the gain stage
process_compression(c, samples, num_samples) ==
    IF num_samples = 0 THEN samples
    ELSE IF c.envelope_buf = <<>> \/ c.envelope_buf_len < num_samples THEN samples
    ELSE apply_block_gain(c, samples, num_samples, block_gain(c, num_samples))

\* ------------------------------------------------------------------------
\* OBS filter API
\* ------------------------------------------------------------------------

\* the instance data as bzalloc leaves it (limiter_v2_create, lines 912-923)
ZeroData ==
    [threshold_db |-> 0, release_time_ms |-> 0, output_gain_db |-> 0,
     adaptive_release_enabled |-> FALSE, lookahead_enabled |-> FALSE,
     lookahead_time_ms |-> 0, true_peak_enabled |-> FALSE,
     attack_coeff |-> 0, release_coeff |-> 0, output_gain |-> 0,
     envelope_buf |-> <<>>, envelope_buf_len |-> 0, envelope |-> 0,
     lookahead_circbuf |-> [i \in Channels |-> EmptyRing],
     lookahead_samples |-> 0, lookahead_buffers_initialized |-> FALSE,
     prev_env_vals |-> [i \in 0 .. (NUM_ENV_HISTORY - 1) |-> 0], prev_env_pos |-> 0,
     sample_rate |-> 0, num_channels |-> 0]

\* (uint64_t)(((double)lookahead_samples / sample_rate) * 1.0e9)
latency_of(lookahead_samples, sample_rate) ==
    lookahead_samples * (1000000000 \div sample_rate)
        + (lookahead_samples * (1000000000 % sample_rate)) \div sample_rate

\* the host's format taken without the cap on the channel count
host_format_uncapped(host) ==
    [num_channels |-> host.channels,
     sample_rate |-> IF host.sample_rate = 0
                     THEN FALLBACK_SAMPLE_RATE ELSE host.sample_rate]

\* the host's format taken with its sample rate as reported, 0 included
host_format_raw_rate(host) ==
    [num_channels |-> IF host.channels > MAX_AUDIO_CHANNELS
                      THEN MAX_AUDIO_CHANNELS ELSE host.channels,
     sample_rate |-> host.sample_rate]

\* the format obs_get_audio() reports, as limiter_v2_update takes it
\* (lines 813-827): at most MAX_AUDIO_CHANNELS channels, 48000 Hz for a rate of 0
host_format(host) ==
    [num_channels |-> IF host.channels > MAX_AUDIO_CHANNELS
                      THEN MAX_AUDIO_CHANNELS ELSE host.channels,
     sample_rate |-> IF host.sample_rate = 0
                     THEN FALLBACK_SAMPLE_RATE ELSE host.sample_rate]

format_changed(c, f) == c.sample_rate # f.sample_rate \/ c.num_channels # f.num_channels

\* the reset that leaves the history cursor where it was
update_format_keep_cursor(c, f) ==
    IF format_changed(c, f)
    THEN [c EXCEPT !.sample_rate = f.sample_rate,
                   !.num_channels = f.num_channels,
                   !.envelope = 0,
                   !.prev_env_vals = [i \in 0 .. (NUM_ENV_HISTORY - 1) |-> 0]]
    ELSE c

\* lines 829-839: a changed format is stored, envelope and history are reset
update_format(c, f) ==
    IF format_changed(c, f)
    THEN [c EXCEPT !.sample_rate = f.sample_rate,
                   !.num_channels = f.num_channels,
                   !.envelope = 0,
                   !.prev_env_vals = [i \in 0 .. (NUM_ENV_HISTORY - 1) |-> 0],
                   !.prev_env_pos = 0]
    ELSE c

\* lines 841-845: the settings are stored as they are read
update_params(c, s) ==
    [c EXCEPT !.threshold_db = s.threshold,
              !.release_time_ms = s.release_time,
              !.output_gain_db = s.output_gain,
              !.adaptive_release_enabled = s.adaptive_release_enabled,
              !.true_peak_enabled = s.true_peak_enabled]

\* lines 850-855: the lookahead time a settings object asks for
new_lookahead_time_ms(s) ==
    LET clamped == fmaxf(0, fminf(MAX_LOOKAHEAD_MS, s.lookahead_time_ms))
    IN IF s.lookahead_enabled /\ FLt(clamped, MIN_LOOKAHEAD_MS) THEN MIN_LOOKAHEAD_MS
       ELSE IF ~s.lookahead_enabled THEN 0
       ELSE clamped

\* the comparison made on the time as the settings give it, before the clamp
lookahead_changed_raw(c, s) ==
    s.lookahead_enabled # c.lookahead_enabled
        \/ s.lookahead_time_ms # c.lookahead_time_ms

lookahead_changed(c, s) ==
    s.lookahead_enabled # c.lookahead_enabled
        \/ new_lookahead_time_ms(s) # c.lookahead_time_ms

\* lines 857-862
update_lookahead_settings(c, s) ==
    IF lookahead_changed(c, s)
    THEN [c EXCEPT !.lookahead_enabled = s.lookahead_enabled,
                   !.lookahead_time_ms = new_lookahead_time_ms(s)]
    ELSE c

clamp_release(release_time_ms) ==
    fmaxf(MIN_RELEASE_MS, fminf(MAX_RELEASE_MS, release_time_ms))

\* lines 864-867
update_coeffs(c) ==
    [c EXCEPT !.attack_coeff = gain_coefficient(c.sample_rate, FIXED_ATTACK_TIME_MS),
              !.release_time_ms = clamp_release(c.release_time_ms),
              !.release_coeff = gain_coefficient(c.sample_rate,
                                                 clamp_release(c.release_time_ms)),
              !.output_gain = db_to_mul(c.output_gain_db)]

\* the conversion by truncation, without the + 0.5f
new_lookahead_samples_floor(c) ==
    IF c.lookahead_enabled /\ c.lookahead_time_ms >= MIN_LOOKAHEAD_MS
           /\ c.sample_rate > 0 /\ c.num_channels > 0
    THEN Max(1, (c.sample_rate * c.lookahead_time_ms) \div (MS_IN_S * MS_ONE))
    ELSE 0

\* lines 870-874: (size_t)(sample_rate * lookahead_time_ms / 1000 + 0.5), at least 1
new_lookahead_samples(c) ==
    IF c.lookahead_enabled /\ c.lookahead_time_ms >= MIN_LOOKAHEAD_MS
           /\ c.sample_rate > 0 /\ c.num_channels > 0
    THEN Max(1, (c.sample_rate * c.lookahead_time_ms + (MS_IN_S * MS_ONE) \div 2)
                    \div (MS_IN_S * MS_ONE))
    ELSE 0

\* lines 869-882: the rebuild, and lookahead disabled when it fails
rebuild_lookahead(c, alloc) ==
    LET rebuilt == update_lookahead_buffers(
                       [c EXCEPT !.lookahead_samples = new_lookahead_samples(c)], alloc)
    IN IF rebuilt.ok THEN rebuilt
       ELSE [ok |-> FALSE,
             cd |-> [rebuilt.cd EXCEPT !.lookahead_enabled = FALSE,
                                       !.lookahead_samples = 0]]

\* the latency taken from the lookahead time instead of the sample count
latency_from_time(c) ==
    IF c.lookahead_enabled /\ c.lookahead_buffers_initialized
           /\ c.lookahead_samples > 0 /\ c.sample_rate > 0
    THEN c.lookahead_time_ms * (1000000 \div MS_ONE)
    ELSE 0

\* lines 884-888: the latency handed to obs_source_set_audio_latency
reported_latency(c) ==
    IF c.lookahead_enabled /\ c.lookahead_buffers_initialized
           /\ c.lookahead_samples > 0 /\ c.sample_rate > 0
    THEN latency_of(c.lookahead_samples, c.sample_rate)
    ELSE 0

\* lines 890-897: the scratch buffer is allocated, zeroed, when there is none
initial_env_buffer(c, env_ok) ==
    IF c.envelope_buf = <<>>
    THEN LET len == (c.sample_rate * INITIAL_ENV_BUF_MS) \div MS_IN_S
             e == ensure_env_buffer(c, IF len = 0 THEN FALLBACK_BLOCK ELSE len, env_ok).cd
         IN [e EXCEPT !.envelope_buf = Zeros(e.envelope_buf_len)]
    ELSE c

\* the instance data once the settings are stored and the coefficients derived
\* (lines 829-867)
configured(c0, s, host) ==
    update_coeffs(
        update_lookahead_settings(
            update_params(update_format(c0, host_format(host)), s), s))

\* a rebuild asked for by the lookahead settings alone: a changed format does
\* not touch the rings
reset_lookahead_settings_only(c0, s, host) == lookahead_changed(c0, s)

\* whether limiter_v2_update rebuilds the delay rings
reset_lookahead(c0, s, host) ==
    format_changed(c0, host_format(host)) \/ lookahead_changed(c0, s)

\* the tail of limiter_v2_update (lines 869-897) on the configured data c
finish_update(c, reset, alloc) ==
    LET r == IF reset THEN rebuild_lookahead(c, alloc) ELSE [ok |-> TRUE, cd |-> c]
    IN [cd |-> initial_env_buffer(r.cd, alloc.env_ok),
        latency_ns |-> reported_latency(r.cd),
        reset_lookahead |-> reset,
        rebuild_failed |-> ~r.ok]

\* limiter_v2_update.  s: the settings; host: what obs_get_audio() reports;
\* alloc: the allocator's answers during this call.
limiter_v2_update(c0, s, host, alloc) ==
    finish_update(configured(c0, s, host), reset_lookahead(c0, s, host), alloc)

\* limiter_v2_create: zeroed data, then the first update
limiter_v2_create(settings, host, alloc) == limiter_v2_update(ZeroData, settings, host, alloc)

\* limiter_v2_destroy: what is still allocated once it has run
limiter_v2_destroy(c) ==
    [c EXCEPT !.lookahead_circbuf =
                  IF c.lookahead_buffers_initialized THEN FreeRings(@, c.num_channels) ELSE @,
              !.envelope_buf = <<>>]

\* the delay stage of limiter_v2_filter_audio (lines 989-1000), from channel ch on
RECURSIVE delay_loop(_, _, _, _, _, _)
delay_loop(c, rings, samples, num_samples, ch, pushed) ==
    IF ch >= c.num_channels
    THEN [rings |-> rings, samples |-> samples, lookahead_active |-> TRUE, pushed |-> pushed]
    ELSE IF ch >= MAX_AUDIO_CHANNELS \/ samples[ch] = <<>>
         THEN delay_loop(c, rings, samples, num_samples, ch + 1, pushed)
    ELSE IF Len(rings[ch].data) = 0 /\ rings[ch].capacity = 0
         THEN [rings |-> rings, samples |-> samples, lookahead_active |-> FALSE,
               pushed |-> pushed]
    ELSE LET p == circlebuf_pop_front(circlebuf_push_back(rings[ch], samples[ch]),
                                      num_samples)
         IN delay_loop(c, [rings EXCEPT ![ch] = p.cb], [samples EXCEPT ![ch] = p.out],
                       num_samples, ch + 1, pushed \cup {ch})

\* lines 983-985
lookahead_active(c) ==
    c.lookahead_enabled /\ c.lookahead_buffers_initialized /\ c.lookahead_samples > 0

\* the delay stage (lines 987-1000) on the analysed data c
delay_stage(c, audio) ==
    IF lookahead_active(c)
    THEN delay_loop(c, c.lookahead_circbuf, audio.data, audio.frames, 0, {})
    ELSE [rings |-> c.lookahead_circbuf, samples |-> audio.data,
          lookahead_active |-> FALSE, pushed |-> {}]

\* the gain stage (line 1002) after the delay stage d
gain_stage(c, audio, d) ==
    [cd |-> [c EXCEPT !.lookahead_circbuf = d.rings],
     audio |-> [audio EXCEPT !.data = process_compression(c, d.samples, audio.frames)],
     passthrough |-> FALSE,
     lookahead_active |-> d.lookahead_active,
     analysis_in |-> audio.data, compression_in |-> d.samples, pushed |-> d.pushed]

\* the stages in the order limiter_v2_filter_audio runs them
run_stages(c, audio) == gain_stage(c, audio, delay_stage(c, audio))

\* the stages run whatever the frame count and the format are
filter_audio_unguarded(c0, audio, env_ok) ==
    run_stages(analyze_envelope(c0, audio.data, audio.frames, env_ok), audio)

\* the stages out of order: the delay line first, the analysis on what it returns
filter_audio_delay_first(c0, audio, env_ok) ==
    IF audio.frames = 0 \/ c0.sample_rate = 0 \/ c0.num_channels = 0
    THEN [cd |-> c0, audio |-> audio, passthrough |-> TRUE, lookahead_active |-> FALSE,
          analysis_in |-> audio.data, compression_in |-> audio.data, pushed |-> {}]
    ELSE LET d == delay_stage(c0, audio)
         IN gain_stage(analyze_envelope(c0, d.samples, audio.frames, env_ok), audio, d)

\* limiter_v2_filter_audio.  audio: [frames, data], data[c] the plane of channel
\* c (empty: a NULL plane).  The result carries, beside the instance data and the
\* caller's buffer, what each stage was given.
limiter_v2_filter_audio(c0, audio, env_ok) ==
    IF audio.frames = 0 \/ c0.sample_rate = 0 \/ c0.num_channels = 0
    THEN [cd |-> c0, audio |-> audio, passthrough |-> TRUE, lookahead_active |-> FALSE,
          analysis_in |-> audio.data, compression_in |-> audio.data, pushed |-> {}]
    ELSE run_stages(analyze_envelope(c0, audio.data, audio.frames, env_ok), audio)

\* ------------------------------------------------------------------------
\* State
\* ------------------------------------------------------------------------

VARIABLES
    state,       \* "live" from limiter_v2_create to limiter_v2_destroy, then "destroyed"
    cd,          \* struct limiter_v2_data
    latency_ns,  \* the latency last handed to obs_source_set_audio_latency
    audio,       \* the caller's obs_audio_data as filter_audio left it, when that
                 \* was the last call (the filter keeps no reference to it)
    call,        \* the last callback OBS made: its arguments, the instance data
                 \* before it, and what it did
    config,      \* the arguments and outcome of the last create or update
    hist,        \* per channel, the samples pushed into its ring since the last rebuild
    n_update,    \* update calls so far
    n_audio,     \* filter_audio calls so far
    settings,    \* the obs_data_t of the filter: the preset id and the seven settings
    props,       \* the obs_properties_t of the filter, once the user has opened it
    n_prop       \* property modifications so far

vars == <<state, cd, latency_ns, audio, call, config, hist, n_update, n_audio,
          settings, props, n_prop>>

NoHist == [c \in Channels |-> <<>>]

NoAudio == [frames |-> 0, data |-> [c \in Channels |-> <<>>]]

\* the state limiter_v2_create returns
Created(s, host, alloc) ==
    \E r \in {limiter_v2_create(s, host, alloc)} :
        /\ state = "live"
        /\ cd = r.cd
        /\ latency_ns = r.latency_ns
        /\ audio = NoAudio
        /\ call = [op |-> "create", settings |-> s, host |-> host,
                   reset_lookahead |-> r.reset_lookahead,
                   rebuild_failed |-> r.rebuild_failed]
        /\ config = [settings |-> s, host |-> host, rebuild_failed |-> r.rebuild_failed]
        /\ hist = NoHist
        /\ n_update = 0
        /\ n_audio = 0
        /\ settings = s
        /\ props = [open |-> FALSE, time_slider_visible |-> FALSE]
        /\ n_prop = 0

\* OBS calls limiter_v2_update
Update(s, host, alloc) ==
    /\ state = "live"
    /\ \E r \in {limiter_v2_update(cd, s, host, alloc)} :
           /\ cd' = r.cd
           /\ latency_ns' = r.latency_ns
           /\ call' = [op |-> "update", settings |-> s, host |-> host,
                       reset_lookahead |-> r.reset_lookahead,
                       rebuild_failed |-> r.rebuild_failed,
                       before |-> cd, prev |-> config]
           /\ config' = [settings |-> s, host |-> host,
                         rebuild_failed |-> r.rebuild_failed]
           /\ hist' = IF r.reset_lookahead THEN NoHist ELSE hist
    /\ audio' = NoAudio
    /\ n_update' = n_update + 1
    /\ settings' = s
    /\ UNCHANGED <<state, n_audio, props, n_prop>>

\* OBS calls limiter_v2_filter_audio
FilterAudio(a, env_ok) ==
    /\ state = "live"
    /\ \E r \in {limiter_v2_filter_audio(cd, a, env_ok)} :
           /\ cd' = r.cd
           /\ audio' = r.audio
           /\ call' = [op |-> "filter_audio", in |-> a,
                       passthrough |-> r.passthrough,
                       lookahead_active |-> r.lookahead_active,
                       analysis_in |-> r.analysis_in,
                       compression_in |-> r.compression_in,
                       pushed |-> r.pushed,
                       before |-> cd]
           /\ hist' = [c \in Channels |->
                          IF c \in r.pushed THEN hist[c] \o a.data[c] ELSE hist[c]]
    /\ n_audio' = n_audio + 1
    /\ UNCHANGED <<state, latency_ns, config, n_update, settings, props, n_prop>>

\* OBS calls limiter_v2_destroy
Destroy ==
    /\ state = "live"
    /\ state' = "destroyed"
    /\ cd' = limiter_v2_destroy(cd)
    /\ call' = [op |-> "destroy"]
    /\ UNCHANGED <<latency_ns, audio, config, hist, n_update, n_audio, settings, props, n_prop>>

\* ------------------------------------------------------------------------
\* Inputs
\* ------------------------------------------------------------------------

Host(sr, ch) == [sample_rate |-> sr, channels |-> ch]

PRESET_VAL_CUSTOM == ""

\* a settings object holding the seven settings, with no preset selected
Settings(thr, rel, gain, adaptive, la, la_ms, tp) ==
    [preset |-> PRESET_VAL_CUSTOM,
     threshold |-> thr, release_time |-> rel, output_gain |-> gain,
     adaptive_release_enabled |-> adaptive, lookahead_enabled |-> la,
     lookahead_time_ms |-> la_ms, true_peak_enabled |-> tp]

Alloc(env_ok, zero_ok, rings_ok) ==
    [env_ok |-> env_ok, zero_ok |-> zero_ok, rings_ok |-> rings_ok]

AllocOK == Alloc(TRUE, TRUE, MAX_AUDIO_CHANNELS)

\* sample i (1-based) of channel c in a block of the named pattern
Sample(pat, c, i) ==
    CASE pat = "silence" -> 0
      [] pat = "impulse" -> IF i = 1 THEN ONE ELSE 0
      [] pat = "loud"    -> IF c % 2 = 0 THEN 2 * ONE ELSE 0 - ONE
      [] pat = "ramp"    -> IF c % 2 = 0 THEN (i * ONE) \div 4 ELSE 0 - (i * ONE) \div 2
      [] pat = "nan"     -> IF i = 1 /\ c = 0 THEN NaN
                            ELSE IF i = 1 THEN PInf ELSE ONE \div 2

\* a block of frames samples with planes for the first `planes` channels
Block(frames, pat, planes) ==
    [frames |-> frames,
     data |-> [c \in Channels |->
                  IF c < planes THEN [i \in 1 .. frames |-> Sample(pat, c, i)] ELSE <<>>]]

\* ------------------------------------------------------------------------
\* Settings, presets and the properties view
\* ------------------------------------------------------------------------

\* the DEFAULT_* values (lines 119-131)
DEFAULTS == Settings(0 - 6 * DB_ONE, 60 * MS_ONE, 0, TRUE, TRUE, 5 * MS_ONE, TRUE)

\* the registered defaults with a lookahead time of 2 ms
defaults_short_lookahead ==
    [DEFAULTS EXCEPT !.preset = "default", !.lookahead_time_ms = 2 * MS_ONE]

\* limiter_v2_defaults: the settings object of a filter nobody has edited
limiter_v2_defaults == [DEFAULTS EXCEPT !.preset = "default"]

\* a branch that leaves the output gain as the settings had it
set_values_keep_gain(s, v) == [v EXCEPT !.preset = s.preset, !.output_gain = s.output_gain]

\* the seven obs_data_set_* calls of one branch of preset_modified_callback
set_values(s, v) == [v EXCEPT !.preset = s.preset]

\* a preset callback that falls back to the default preset for every id
preset_fallback_default(p, s) == [props |-> p, s |-> set_values(s, DEFAULTS)]

\* preset_modified_callback: the branch chosen by strcmp on the preset id
preset_modified_callback(p, s) ==
    [props |-> p,
     s |-> CASE s.preset = "default" -> set_values(s, DEFAULTS)
             [] s.preset = "podcast" ->
                    set_values(s, Settings(0 - 8 * DB_ONE, 80 * MS_ONE, 0,
                                           TRUE, TRUE, 8 * MS_ONE, TRUE))
             [] s.preset = "streaming" ->
                    set_values(s, Settings(0 - 7 * DB_ONE, 70 * MS_ONE, 1 * DB_ONE,
                                           TRUE, TRUE, 3 * MS_ONE, TRUE))
             [] s.preset = "aggressive" ->
                    set_values(s, Settings(0 - 5 * DB_ONE, 40 * MS_ONE, 3 * DB_ONE,
                                           TRUE, TRUE, 2 * MS_ONE, TRUE))
             [] s.preset = "transparent" ->
                    set_values(s, Settings(0 - (3 * DB_ONE) \div 2, 50 * MS_ONE, 0,
                                           TRUE, TRUE, 5 * MS_ONE, TRUE))
             [] s.preset = "music" ->
                    set_values(s, Settings(0 - 2 * DB_ONE, 200 * MS_ONE, 0,
                                           FALSE, TRUE, 2 * MS_ONE, TRUE))
             [] s.preset = "brickwall" ->
                    set_values(s, Settings(0 - (3 * DB_ONE) \div 10, 50 * MS_ONE, 0,
                                           FALSE, TRUE, (3 * MS_ONE) \div 2, TRUE))
             [] OTHER -> s]

\* a parameter callback that leaves the preset id alone
parameter_callback_idle(p, s) == [props |-> p, s |-> s]

\* parameter_modified_callback: a preset other than Custom becomes Custom
parameter_modified_callback(p, s) ==
    [props |-> p,
     s |-> IF s.preset # PRESET_VAL_CUSTOM THEN [s EXCEPT !.preset = PRESET_VAL_CUSTOM]
           ELSE s]

\* a toggle callback that sets the slider's visibility and leaves the preset
\* id alone
lookahead_callback_visibility_only(p, s) ==
    [props |-> [p EXCEPT !.time_slider_visible = s.lookahead_enabled], s |-> s]

\* lookahead_enabled_modified_callback: the parameter callback, then the
\* visibility of the lookahead-time slider
lookahead_enabled_modified_callback(p, s) ==
    LET r == parameter_modified_callback(p, s)
    IN [props |-> [r.props EXCEPT !.time_slider_visible = r.s.lookahead_enabled],
        s |-> r.s]

\* limiter_v2_properties: the view created for the instance data c
limiter_v2_properties(c) == [open |-> TRUE, time_slider_visible |-> c.lookahead_enabled]

\* the callback limiter_v2_properties registers for the property named key
modified_callback(key, p, s) ==
    CASE key = "preset" -> preset_modified_callback(p, s)
      [] key = "lookahead_enabled" -> lookahead_enabled_modified_callback(p, s)
      [] OTHER -> parameter_modified_callback(p, s)

\* the user opens the properties of the filter
Properties ==
    /\ state = "live"
    /\ ~props.open
    /\ props' = limiter_v2_properties(cd)
    /\ call' = [op |-> "properties"]
    /\ UNCHANGED <<state, cd, latency_ns, audio, config, hist, n_update, n_audio,
                   settings, n_prop>>

\* the user gives the property named key a value: the view stores it in the
\* settings and calls the property's modified callback (obs_property_modified)
PropertyModified(key, value) ==
    /\ state = "live"
    /\ props.open
    /\ \E r \in {modified_callback(key, props, [settings EXCEPT ![key] = value])} :
           /\ settings' = r.s
           /\ props' = r.props
    /\ call' = [op |-> "property_modified", key |-> key,
                before |-> [settings EXCEPT ![key] = value]]
    /\ n_prop' = n_prop + 1
    /\ UNCHANGED <<state, cd, latency_ns, audio, config, hist, n_update, n_audio>>

\* ------------------------------------------------------------------------
\* Specification: the user at the properties view
\* ------------------------------------------------------------------------

MaxProps == 3

MaxPropUpdates == 1

\* the values the user can give to each property
Edits ==
    [preset |-> {"default", "podcast", "streaming", "aggressive", "transparent",
                 "music", "brickwall", PRESET_VAL_CUSTOM, "unknown"},
     threshold |-> {0 - (31 * DB_ONE) \div 2, 0 - 6 * DB_ONE},
     release_time |-> {150 * MS_ONE, 60 * MS_ONE},
     output_gain |-> {5 * DB_ONE, 0},
     adaptive_release_enabled |-> BOOLEAN,
     lookahead_enabled |-> BOOLEAN,
     lookahead_time_ms |-> {(123 * MS_ONE) \div 10, 5 * MS_ONE},
     true_peak_enabled |-> BOOLEAN]

InitProps == Created(limiter_v2_defaults, Host(1000, 2), AllocOK)

NextProps ==
    \/ Properties
    \/ \E key \in DOMAIN Edits : \E value \in Edits[key] :
           n_prop < MaxProps /\ PropertyModified(key, value)
    \/ n_update < MaxPropUpdates /\ Update(settings, Host(1000, 2), AllocOK)

SpecProps == InitProps /\ [][NextProps]_vars

\* ------------------------------------------------------------------------
\* Specification: configuration changes, with a few blocks in between
\* ------------------------------------------------------------------------

MaxUpdates == 2

MaxBlocks == 1

Hosts == {Host(1000, 2), Host(1000, 1), Host(1000, 0), Host(0, 9)}

SettingsSet ==
    {Settings(0 - 6 * DB_ONE, 60 * MS_ONE, 0, TRUE, TRUE, 1 * MS_ONE, TRUE),
     Settings(0 - 6 * DB_ONE, 60 * MS_ONE, 0, TRUE, FALSE, 1 * MS_ONE, TRUE),
     Settings(5 * DB_ONE, 2000 * MS_ONE, 25 * DB_ONE, FALSE, TRUE, 30 * MS_ONE, FALSE),
     Settings(0 - 70 * DB_ONE, MS_ONE \div 2, 30 * DB_ONE, FALSE, TRUE, 0, TRUE)}

Allocs == {AllocOK, Alloc(TRUE, FALSE, MAX_AUDIO_CHANNELS), Alloc(FALSE, TRUE, 1)}

LongFrames == 22

Blocks == {Block(0, "silence", MAX_AUDIO_CHANNELS), Block(2, "loud", MAX_AUDIO_CHANNELS),
           Block(1, "ramp", 1), Block(LongFrames, "impulse", 1)}

Init == \E s \in SettingsSet, host \in Hosts, alloc \in Allocs : Created(s, host, alloc)

Next ==
    \/ \E s \in SettingsSet, host \in Hosts, alloc \in Allocs :
           n_update < MaxUpdates /\ Update(s, host, alloc)
    \/ \E a \in Blocks, env_ok \in BOOLEAN :
           n_audio < MaxBlocks /\ FilterAudio(a, env_ok)
    \/ Destroy

Spec == Init /\ [][Next]_vars

TypeOK ==
    /\ state \in {"live", "destroyed"}
    /\ cd.num_channels \in 0 .. MAX_AUDIO_CHANNELS
    /\ cd.prev_env_pos \in 0 .. (NUM_ENV_HISTORY - 1)
    /\ state = "live" => cd.envelope_buf_len = Len(cd.envelope_buf)

\* ------------------------------------------------------------------------
\* Specification: a stream of blocks through the delay line
\* ------------------------------------------------------------------------

MaxDelayBlocks == 3

MaxDelayUpdates == 1

DelayHosts == {Host(1000, 1), Host(1000, 2)}

DelaySettings ==
    {Settings(0 - 6 * DB_ONE, 60 * MS_ONE, 0, TRUE, TRUE, 1 * MS_ONE, TRUE),
     Settings(0 - 6 * DB_ONE, 60 * MS_ONE, 6 * DB_ONE, FALSE, TRUE, 2 * MS_ONE, FALSE)}

DelayAllocs == {AllocOK, Alloc(FALSE, TRUE, MAX_AUDIO_CHANNELS)}

DelayBlocks == {Block(1, "impulse", 2), Block(3, "impulse", 2), Block(2, "ramp", 2),
                Block(1, "silence", 2), Block(2, "nan", 2), Block(LongFrames, "ramp", 1)}

InitDelay ==
    \E s \in DelaySettings, host \in DelayHosts, alloc \in DelayAllocs :
        Created(s, host, alloc)

NextDelay ==
    \/ \E a \in DelayBlocks, env_ok \in BOOLEAN :
           n_audio < MaxDelayBlocks /\ FilterAudio(a, env_ok)
    \/ \E s \in DelaySettings, host \in DelayHosts :
           n_update < MaxDelayUpdates /\ Update(s, host, AllocOK)

SpecDelay == InitDelay /\ [][NextDelay]_vars

\* ------------------------------------------------------------------------
\* Specification: a constant level held over several blocks
\* ------------------------------------------------------------------------

MaxGainBlocks == 4

MaxGainUpdates == 1

GainFrames == 4

\* a block of GainFrames samples at the constant magnitude level on two planes,
\* positive on the first and negative on the second
LevelBlock(level) ==
    [frames |-> GainFrames,
     data |-> [c \in Channels |->
                  IF c = 0 THEN [i \in 1 .. GainFrames |-> level]
                  ELSE IF c = 1 THEN [i \in 1 .. GainFrames |-> 0 - level]
                  ELSE <<>>]]

GainHosts == {Host(1000, 1), Host(1000, 2)}

GainSettings ==
    {Settings(0 - 6 * DB_ONE, 60 * MS_ONE, 0, TRUE, TRUE, 1 * MS_ONE, TRUE),
     Settings(0 - 12 * DB_ONE, 60 * MS_ONE, 6 * DB_ONE, FALSE, FALSE, 0, FALSE),
     Settings(0 - 6 * DB_ONE, 200 * MS_ONE, 0 - 6 * DB_ONE, TRUE, TRUE, 2 * MS_ONE, FALSE),
     Settings(0 - 6 * DB_ONE, 1 * MS_ONE, 0, TRUE, TRUE, 1 * MS_ONE, FALSE)}

GainBlocks == {LevelBlock(ONE), LevelBlock(ONE \div 2), LevelBlock(ONE \div 4), LevelBlock(0)}

InitGain ==
    \E s \in GainSettings, host \in GainHosts : Created(s, host, AllocOK)

NextGain ==
    \/ \E a \in GainBlocks : n_audio < MaxGainBlocks /\ FilterAudio(a, TRUE)
    \/ \E s \in GainSettings :
           n_update < MaxGainUpdates
               /\ Update(s, [sample_rate |-> cd.sample_rate, channels |-> cd.num_channels],
                         AllocOK)

SpecGain == InitGain /\ [][NextGain]_vars

\* ------------------------------------------------------------------------
\* Properties
\* ------------------------------------------------------------------------

\* the last call was a filter_audio that did not pass through
Processed == state = "live" /\ call.op = "filter_audio" /\ ~call.passthrough

\* the channels filter_audio works on: below the channel count, with a plane
Active(a) == {c \in Channels : c < cd.num_channels /\ a.data[c] # <<>>}

\* the stream position (1-based, since the last rebuild) of index i of the last block
Position(c, i) == Len(hist[c]) - call.in.frames + i

\* what the delay line holds for stream position pos of channel c: the sample
\* pushed lookahead_samples positions earlier, or one of the pre-filled zeros
Delayed(c, pos) ==
    IF pos <= cd.lookahead_samples THEN 0 ELSE hist[c][pos - cd.lookahead_samples]

\* the gain stage ran on the last block (it is skipped when the scratch buffer
\* could not be grown)
GainStageRan == cd.envelope_buf # <<>> /\ cd.envelope_buf_len >= call.in.frames

\* the gain of index i of the last block
GainAt(i) == IF GainStageRan THEN final_gain(cd, cd.envelope_buf[i]) ELSE ONE

\* every active channel went through the delay line whenever lookahead is active
AllDelayed ==
    lookahead_active(cd) => (call.lookahead_active /\ call.pushed = Active(call.in))

\* C1 (as stated): with lookahead active, the output at stream position n is
\* the input sample of position n - L times a gain, whatever that sample is,
\* and the outputs at positions n <= L are the pre-filled zeros.
C1_AsStated ==
    Processed =>
        /\ AllDelayed
        /\ \A c \in call.pushed : \A i \in 1 .. call.in.frames :
               audio.data[c][i] = FMul(Delayed(c, Position(c, i)), GainAt(i))

\* C1 (amended): with lookahead active, over any sequence of blocks without a
\* rebuild, the output at stream position n of every active channel is the
\* input sample of position n - L times the gain of its index when that sample
\* is finite, and 0 when it is not finite (the sample itself when the gain
\* stage was skipped); the outputs at positions n <= L are the pre-filled zeros.
C1_DelayByL ==
    Processed =>
        /\ AllDelayed
        /\ \A c \in call.pushed : \A i \in 1 .. call.in.frames :
               LET x == Delayed(c, Position(c, i))
               IN audio.data[c][i] = IF ~GainStageRan THEN x
                                     ELSE IF isfinite(x) THEN FMul(x, GainAt(i))
                                     ELSE 0

\* a block shorter than L = 2 came out of the delay line carrying the impulse
\* pushed two positions earlier, all outputs before it being 0
C1_Witness ==
    /\ Processed
    /\ cd.lookahead_samples = 2
    /\ call.in.frames = 1
    /\ 0 \in call.pushed
    /\ n_audio = 3
    /\ hist[0] = <<ONE, 0, 0>>
    /\ audio.data[0][1] # 0

\* the planes of the last block as the delay line returns them: what was pushed
\* lookahead_samples positions earlier for a delayed channel, the input otherwise
DelayedPlanes ==
    [c \in Channels |->
        IF c \in call.pushed
        THEN [i \in 1 .. call.in.frames |-> Delayed(c, Position(c, i))]
        ELSE call.in.data[c]]

\* C2: a block that is not passed through is analysed before it is delayed and
\* gained after: the per-index envelope is the one analyze_envelope computes
\* from the raw input and the state before the call, the gain stage is given
\* the delayed planes, and the sample output at index i is the delayed sample
\* of index i under the gain derived from the envelope of the same index i.
C2_StageOrder ==
    (Processed /\ GainStageRan) =>
        /\ cd.envelope_buf =
               analyze_envelope(call.before, call.in.data, call.in.frames, TRUE).envelope_buf
        /\ call.compression_in = DelayedPlanes
        /\ \A c \in Active(call.in) : \A i \in 1 .. call.in.frames :
               audio.data[c][i] = apply_gain(DelayedPlanes[c][i],
                                             final_gain(cd, cd.envelope_buf[i]))

\* a delayed block whose gain at some index is a reduction caused by the raw
\* input of that index, applied to an earlier, different, non-zero sample
C2_Witness ==
    /\ Processed
    /\ GainStageRan
    /\ 0 \in call.pushed
    /\ \E i \in 1 .. call.in.frames :
           /\ GainAt(i) < cd.output_gain
           /\ DelayedPlanes[0][i] # call.in.data[0][i]
           /\ audio.data[0][i] # 0

\* the magnitude of the last block's input when it is one constant level on
\* every plane, -1 when it is not
Level ==
    IF \A c \in Channels : \A i \in 1 .. call.in.frames :
           c \in Active(call.in) => fabsf(call.in.data[c][i]) = fabsf(call.in.data[0][1])
    THEN fabsf(call.in.data[0][1])
    ELSE 0 - 1

\* the envelope has settled to the level of the input, above the threshold, and
\* no sample leaving the delay line is above that level
Settled ==
    /\ Processed
    /\ GainStageRan
    /\ Level > 0
    /\ FGt(mul_to_db(Level), cd.threshold_db)
    /\ \A i \in 1 .. call.in.frames : cd.envelope_buf[i] = Level
    /\ \A c \in Active(call.in) : \A i \in 1 .. call.in.frames :
           fabsf(DelayedPlanes[c][i]) <= Level

\* 0.1 dB
Tolerance == DB_ONE \div 10

\* the gain of index i with the output gain taken out
ReductionAt(i) == final_gain([cd EXCEPT !.output_gain = ONE], cd.envelope_buf[i])

\* C3: with a constant input level above the threshold and the envelope settled
\* to it, every output sample is at most 10^(T/20) times the linear output gain,
\* within 0.1 dB (at most 10^(T/20) when the output gain is 0 dB), and the output
\* gain enters the output only as its own factor on the gain reduction.
C3_PeakLimited ==
    Settled =>
        \A c \in Active(call.in) : \A i \in 1 .. call.in.frames :
            /\ mul_to_db(fabsf(audio.data[c][i]))
                   <= cd.threshold_db + cd.output_gain_db + Tolerance
            /\ cd.output_gain_db = 0 =>
                   mul_to_db(fabsf(audio.data[c][i])) <= cd.threshold_db + Tolerance
            /\ audio.data[c][i] =
                   FMul(DelayedPlanes[c][i], FMul(ReductionAt(i), db_to_mul(cd.output_gain_db)))

\* a settled block limited to the threshold and then raised by an output gain
\* of +6 dB
C3_Witness ==
    /\ Settled
    /\ cd.output_gain_db = 6 * DB_ONE
    /\ 1 \in Active(call.in)
    /\ mul_to_db(fabsf(audio.data[1][call.in.frames])) >= cd.threshold_db + cd.output_gain_db - Tolerance

\* the last call was a create or an update
Configured == state = "live" /\ call.op \in {"create", "update"}

\* the last call was an update given the settings and the host format of the
\* configure before it
ConfigureRepeated ==
    /\ state = "live"
    /\ call.op = "update"
    /\ call.settings = call.prev.settings
    /\ call.host = call.prev.host

\* the update left the derived values and every delay ring as they were
NothingRebuilt ==
    /\ cd.attack_coeff = call.before.attack_coeff
    /\ cd.release_coeff = call.before.release_coeff
    /\ cd.output_gain = call.before.output_gain
    /\ cd.lookahead_samples = call.before.lookahead_samples
    /\ cd.lookahead_circbuf = call.before.lookahead_circbuf
    /\ ~call.reset_lookahead

C5_RebuiltZeroed ==
    (Configured /\ call.reset_lookahead) =>
        \A c \in Channels :
            c < cd.num_channels => cd.lookahead_circbuf[c].data = Zeros(cd.lookahead_samples)

\* the format an update is given differs from the one the engine had
FormatDiffers ==
    \/ host_format(call.host).sample_rate # call.before.sample_rate
    \/ host_format(call.host).num_channels # call.before.num_channels

C8_Clamped ==
    Configured =>
        /\ cd.threshold_db >= MIN_THRESHOLD_DB /\ cd.threshold_db <= MAX_THRESHOLD_DB
        /\ cd.release_time_ms >= MIN_RELEASE_MS /\ cd.release_time_ms <= MAX_RELEASE_MS
        /\ cd.output_gain_db >= MIN_OUTPUT_GAIN_DB /\ cd.output_gain_db <= MAX_OUTPUT_GAIN_DB
        /\ cd.lookahead_enabled =>
               /\ cd.lookahead_time_ms >= MIN_LOOKAHEAD_MS
               /\ cd.lookahead_time_ms <= MAX_LOOKAHEAD_MS

\* C9: when the rebuild fails, the rings of all channels are torn down and
\* lookahead is disabled: lookahead_enabled false, lookahead_samples 0, the
\* initialized flag false, the reported latency 0; later blocks are analysed and
\* gained but not delayed.
C9_FailureDisables ==
    /\ (Configured /\ call.rebuild_failed) =>
           /\ \A c \in Channels : c < cd.num_channels => cd.lookahead_circbuf[c] = EmptyRing
           /\ ~cd.lookahead_enabled
           /\ cd.lookahead_samples = 0
           /\ ~cd.lookahead_buffers_initialized
           /\ latency_ns = 0
    /\ (Processed /\ config.rebuild_failed) =>
           /\ call.pushed = {}
           /\ call.compression_in = call.in.data
           /\ call.before.envelope_buf_len >= call.in.frames =>
                  cd.prev_env_pos = (call.before.prev_env_pos + 1) % NUM_ENV_HISTORY

\* C10: a block with no frames, or given to an engine whose sample rate or
\* channel count is 0, leaves the caller's buffers, the envelope, the history
\* ring, the scratch buffer and every delay ring as they were.
C10_PassThrough ==
    (state = "live" /\ call.op = "filter_audio"
         /\ (call.in.frames = 0 \/ call.before.sample_rate = 0
                 \/ call.before.num_channels = 0)) =>
        /\ audio = call.in
        /\ cd = call.before

\* a block of samples given to an engine with no channels
C10_Witness ==
    /\ state = "live"
    /\ call.op = "filter_audio"
    /\ call.in.frames > 0
    /\ call.before.num_channels = 0
    /\ \E i \in 1 .. call.in.frames : audio.data[0][i] # 0

\* C11: when every sample given to a block, and every sample the delay line
\* returns for it, is finite, every output sample is finite, whatever the
\* settings of lookahead, true peak and adaptive release are.
C11_FiniteOut ==
    (Processed
         /\ \A c \in Active(call.in) : \A i \in 1 .. call.in.frames :
                isfinite(call.in.data[c][i]) /\ isfinite(DelayedPlanes[c][i])) =>
        \A c \in Active(call.in) : \A i \in 1 .. call.in.frames :
            isfinite(audio.data[c][i])

\* the last block was processed and every sample given to it is zero
SilentIn ==
    /\ Processed
    /\ \A c \in Active(call.in) : \A i \in 1 .. call.in.frames : call.in.data[c][i] = 0

C13_NoFailingOutcome ==
    (state = "live" /\ call.op = "filter_audio") =>
        /\ audio.frames = call.in.frames
        /\ \A c \in Channels : Len(audio.data[c]) = Len(call.in.data[c])
        /\ ~call.passthrough =>
               \A c \in Active(call.in) : \A i \in 1 .. call.in.frames :
                   isfinite(audio.data[c][i])

\* C14: a block of any frame count leaves the capacity of every delay ring as
\* the last configure set it, and the scratch buffer changes its length only
\* when the block has more frames than it held.
C14_NoDelayAllocation ==
    (state = "live" /\ call.op = "filter_audio") =>
        /\ \A c \in Channels :
               cd.lookahead_circbuf[c].capacity = call.before.lookahead_circbuf[c].capacity
        /\ cd.envelope_buf_len # call.before.envelope_buf_len =>
               call.in.frames > call.before.envelope_buf_len

\* C15: once a rebuild has run, the only rings allocated are those of the
\* present configuration (lookahead active, channel below the channel count),
\* and after destroy no ring and no scratch buffer is allocated.
C15_RingsReleased ==
    /\ (Configured /\ call.reset_lookahead) =>
           \A c \in Channels :
               cd.lookahead_circbuf[c] # EmptyRing =>
                   (lookahead_active(cd) /\ c < cd.num_channels)
    /\ state = "destroyed" =>
           /\ \A c \in Channels : cd.lookahead_circbuf[c] = EmptyRing
           /\ cd.envelope_buf = <<>>

\* the seven settings of a settings object, in the order threshold, release,
\* output gain, adaptive release, lookahead enabled, lookahead time, true peak
Seven(s) ==
    <<s.threshold, s.release_time, s.output_gain, s.adaptive_release_enabled,
      s.lookahead_enabled, s.lookahead_time_ms, s.true_peak_enabled>>

\* the documented values of the named presets, in dB and ms
Documented ==
    [default |-> <<0 - 6 * DB_ONE, 60 * MS_ONE, 0, TRUE, TRUE, 5 * MS_ONE, TRUE>>,
     podcast |-> <<0 - 8 * DB_ONE, 80 * MS_ONE, 0, TRUE, TRUE, 8 * MS_ONE, TRUE>>,
     streaming |-> <<0 - 7 * DB_ONE, 70 * MS_ONE, 1 * DB_ONE, TRUE, TRUE, 3 * MS_ONE, TRUE>>,
     aggressive |-> <<0 - 5 * DB_ONE, 40 * MS_ONE, 3 * DB_ONE, TRUE, TRUE, 2 * MS_ONE, TRUE>>,
     transparent |-> <<0 - 15 * (DB_ONE \div 10), 50 * MS_ONE, 0, TRUE, TRUE, 5 * MS_ONE, TRUE>>,
     music |-> <<0 - 2 * DB_ONE, 200 * MS_ONE, 0, FALSE, TRUE, 2 * MS_ONE, TRUE>>,
     brickwall |-> <<0 - 3 * (DB_ONE \div 10), 50 * MS_ONE, 0, FALSE, TRUE,
                     15 * (MS_ONE \div 10), TRUE>>]

\* the preset callback has just run on the id the user selected
PresetSelected ==
    state = "live" /\ call.op = "property_modified" /\ call.key = "preset"

\* C16: selecting a named preset leaves the seven settings at the preset's
\* documented values, whatever they were, and the preset id as selected.
C16_PresetApplied ==
    (PresetSelected /\ call.before.preset \in DOMAIN Documented) =>
        /\ Seven(settings) = Documented[call.before.preset]
        /\ settings.preset = call.before.preset

\* the brickwall preset selected over settings that differed from it in the
\* output gain and the lookahead toggle
C16_Witness ==
    /\ PresetSelected
    /\ call.before.preset = "brickwall"
    /\ call.before.output_gain = 5 * DB_ONE
    /\ ~call.before.lookahead_enabled
    /\ settings.output_gain = 0
    /\ settings.lookahead_enabled

\* C17: the preset callback run with the Custom id, or with an id that names no
\* preset, changes none of the seven settings (nor the id).
C17_CustomKeeps ==
    (PresetSelected /\ call.before.preset \notin DOMAIN Documented) =>
        settings = call.before

\* an unknown preset id selected over edited settings
C17_Witness ==
    /\ PresetSelected
    /\ call.before.preset = "unknown"
    /\ settings.output_gain = 5 * DB_ONE
    /\ Seven(settings) # Documented["default"]

\* C18: the callback of any of the seven parameters leaves the preset id at
\* Custom (also when it was Custom already) and every value as the user set it.
C18_EditMakesCustom ==
    (state = "live" /\ call.op = "property_modified" /\ call.key # "preset") =>
        /\ settings.preset = PRESET_VAL_CUSTOM
        /\ Seven(settings) = Seven(call.before)

\* the output gain edited to 5 dB while the podcast preset was selected
C18_Witness ==
    /\ state = "live"
    /\ call.op = "property_modified"
    /\ call.key = "output_gain"
    /\ call.before.preset = "podcast"
    /\ settings.preset = PRESET_VAL_CUSTOM
    /\ settings.output_gain = 5 * DB_ONE
    /\ settings.threshold = 0 - 8 * DB_ONE

\* C19: the settings of a filter created and not yet edited are preset
\* 'default', -6 dB, 60 ms, 0 dB, adaptive release on, lookahead on, 5 ms, true
\* peak on, and selecting the 'default' preset gives exactly these values.
C19_Defaults ==
    /\ (state = "live" /\ n_prop = 0) =>
           /\ settings.preset = "default"
           /\ Seven(settings) = <<0 - 6 * DB_ONE, 60 * MS_ONE, 0, TRUE, TRUE, 5 * MS_ONE, TRUE>>
    /\ (PresetSelected /\ call.before.preset = "default") =>
           Seven(settings) = <<0 - 6 * DB_ONE, 60 * MS_ONE, 0, TRUE, TRUE, 5 * MS_ONE, TRUE>>

\* the default preset selected again after the threshold and the lookahead
\* time had been edited
C19_Witness ==
    /\ PresetSelected
    /\ call.before.preset = "default"
    /\ call.before.threshold # 0 - 6 * DB_ONE
    /\ call.before.lookahead_time_ms # 5 * MS_ONE
    /\ settings = limiter_v2_defaults

\* C20: after a configure the channel count is the host's, cut to 8 when the
\* host has more, and the configure is carried out all the same; a block is read
\* and written only on planes and rings below the channel count, and no plane
\* or ring of index 8 or more exists.
C20_ChannelCap ==
    /\ Configured =>
           /\ cd.num_channels = Min(call.host.channels, 8)
           /\ cd.threshold_db = call.settings.threshold
           /\ cd.output_gain_db = call.settings.output_gain
    /\ state = "live" =>
           /\ cd.num_channels <= 8
           /\ DOMAIN cd.lookahead_circbuf = 0 .. 7
    /\ (state = "live" /\ call.op = "filter_audio") =>
           /\ DOMAIN audio.data = 0 .. 7
           /\ call.pushed \subseteq {c \in Channels : c < cd.num_channels}
           /\ \A c \in Channels :
                  c >= cd.num_channels =>
                      /\ audio.data[c] = call.in.data[c]
                      /\ cd.lookahead_circbuf[c] = call.before.lookahead_circbuf[c]

\* a block processed on all eight planes for a host that reports nine channels
C20_Witness ==
    /\ Processed
    /\ config.host.channels = 9
    /\ cd.num_channels = 8
    /\ 7 \in Active(call.in)
    /\ audio.data[7] # call.in.data[7]

\* C21: after a configure the sample rate is not 0: a host rate of 0 is replaced
\* by 48000 Hz, and the coefficients, lookahead_samples and the reported latency
\* are the ones derived from the rate in effect.
C21_RateFallback ==
    Configured =>
        /\ cd.sample_rate # 0
        /\ cd.sample_rate = IF call.host.sample_rate = 0 THEN 48000
                            ELSE call.host.sample_rate
        /\ cd.attack_coeff = gain_coefficient(cd.sample_rate, FIXED_ATTACK_TIME_MS)
        /\ cd.release_coeff = gain_coefficient(cd.sample_rate, cd.release_time_ms)
        /\ lookahead_active(cd) =>
               cd.lookahead_samples =
                   Max(1, (cd.sample_rate * cd.lookahead_time_ms + (MS_IN_S * MS_ONE) \div 2)
                              \div (MS_IN_S * MS_ONE))
        /\ latency_ns = IF lookahead_active(cd)
                        THEN latency_of(cd.lookahead_samples, cd.sample_rate)
                        ELSE 0

\* a host reporting 0 Hz configured with 1 ms of lookahead: 48 samples at
\* 48000 Hz, reported as 1 ms
C21_Witness ==
    /\ Configured
    /\ call.host.sample_rate = 0
    /\ cd.sample_rate = FALLBACK_SAMPLE_RATE
    /\ lookahead_active(cd)
    /\ cd.lookahead_samples = 48
    /\ latency_ns = 1000000
    /\ cd.attack_coeff > 0
    /\ cd.release_coeff > cd.attack_coeff

\* C22: while lookahead is active the ring of every channel has a capacity of
\* at least lookahead_samples and holds exactly lookahead_samples samples
\* between blocks; during a block a ring holds at most lookahead_samples plus
\* the block's frame count (what it holds once the block is pushed), whatever
\* the sizes of the blocks so far.
C22_RingBounds ==
    (state = "live" /\ lookahead_active(cd)) =>
        /\ \A c \in Channels :
               c < cd.num_channels =>
                   /\ cd.lookahead_circbuf[c].capacity >= cd.lookahead_samples
                   /\ Len(cd.lookahead_circbuf[c].data) = cd.lookahead_samples
        /\ Processed =>
               \A c \in call.pushed :
                   /\ Len(call.before.lookahead_circbuf[c].data) = cd.lookahead_samples
                   /\ Len(circlebuf_push_back(call.before.lookahead_circbuf[c],
                                              call.in.data[c]).data)
                          <= cd.lookahead_samples + call.in.frames
                   /\ cd.lookahead_circbuf[c].capacity
                          >= cd.lookahead_samples + call.in.frames

\* a third block, longer than the rings were reserved for, after two shorter
\* ones of different sizes
C22_Witness ==
    /\ Processed
    /\ n_audio = 3
    /\ 0 \in call.pushed
    /\ call.in.frames = LongFrames
    /\ Len(hist[0]) \in {LongFrames + 3, LongFrames + 4}
    /\ cd.lookahead_circbuf[0].capacity > call.before.lookahead_circbuf[0].capacity
    /\ Len(cd.lookahead_circbuf[0].data) = cd.lookahead_samples

\* C24: the history ring holds the block-final envelopes of the three most
\* recent analysed blocks, zeros standing for the blocks missing since the last
\* reset.  Read from the cursor backwards (newest first), the ring is all zeros
\* after a create or a format change; an analysed block puts its final envelope
\* in front and drops the oldest value, writing one slot only; every other call
\* leaves the ring and the cursor as they were.
C24_HistoryRing ==
    state = "live" =>
        LET age(c) == [k \in 0 .. (NUM_ENV_HISTORY - 1) |->
                          c.prev_env_vals[(c.prev_env_pos + NUM_ENV_HISTORY - k)
                                              % NUM_ENV_HISTORY]]
        IN /\ (call.op = "create" \/ (call.op = "update" /\ FormatDiffers)) =>
                  /\ age(cd) = [k \in 0 .. (NUM_ENV_HISTORY - 1) |-> 0]
                  /\ cd.prev_env_pos = 0
           /\ (call.op = "update" /\ ~FormatDiffers) =>
                  /\ cd.prev_env_vals = call.before.prev_env_vals
                  /\ cd.prev_env_pos = call.before.prev_env_pos
           /\ call.op = "filter_audio" =>
                  IF ~call.passthrough /\ GainStageRan
                  THEN /\ age(cd) = [k \in 0 .. (NUM_ENV_HISTORY - 1) |->
                                        IF k = 0 THEN cd.envelope
                                        ELSE age(call.before)[k - 1]]
                       /\ cd.prev_env_pos # call.before.prev_env_pos
                       /\ \A k \in 0 .. (NUM_ENV_HISTORY - 1) :
                              k # cd.prev_env_pos =>
                                  cd.prev_env_vals[k] = call.before.prev_env_vals[k]
                  ELSE /\ cd.prev_env_vals = call.before.prev_env_vals
                       /\ cd.prev_env_pos = call.before.prev_env_pos

\* the third analysed block since the create wrote slot 0, the ring then
\* holding three different final envelopes
C24_Witness ==
    /\ Processed
    /\ GainStageRan
    /\ n_audio = 3
    /\ n_update = 0
    /\ cd.prev_env_pos = 0
    /\ cd.prev_env_vals[0] = cd.envelope
    /\ cd.prev_env_vals[1] > cd.prev_env_vals[2]
    /\ cd.prev_env_vals[2] > cd.prev_env_vals[0]
    /\ cd.prev_env_vals[0] > 0

\* C25: the change rate is the average of the two gaps of the history taken in
\* age order, |middle - oldest| and |newest - middle|, wherever the cursor is
\* (the cursor is on the newest value, the slot after it holds the oldest).
C25_AgeOrderRate ==
    state = "live" =>
        LET h(k) == cd.prev_env_vals[(cd.prev_env_pos + 1 + k) % NUM_ENV_HISTORY]
        IN calculate_env_change_rate(cd)
               = RoundDiv(Abs(h(1) - h(0)) + Abs(h(2) - h(1)), NUM_ENV_HISTORY - 1)

\* C26: the release time an analysed block uses is the base release time when
\* adaptive release is off or the change rate is at most 0.05, and otherwise
\* base / clamp(rate * 15, 1, 3), not below 1 ms; it is never longer than the
\* base time and never shorter than max(1 ms, base / 3), and with adaptive
\* release off the coefficient is the stored base coefficient.  The envelope of
\* the block is the one smoothed with the coefficient of that release time.
C26_AdaptiveRelease ==
    (Processed /\ GainStageRan) =>
        LET b == call.before
            rate == calculate_env_change_rate(b)
            factor == IF rate * 15 < ONE THEN ONE
                      ELSE IF rate * 15 > 3 * ONE THEN 3 * ONE ELSE rate * 15
            used_ms == IF b.adaptive_release_enabled /\ rate > (5 * ONE) \div 100
                       THEN Max(RoundDiv(b.release_time_ms * ONE, factor), 1 * MS_ONE)
                       ELSE b.release_time_ms
            by_rule == analyze_envelope(
                           [b EXCEPT !.adaptive_release_enabled = FALSE,
                                     !.release_coeff = gain_coefficient(b.sample_rate, used_ms)],
                           call.in.data, call.in.frames, TRUE)
        IN /\ used_ms <= b.release_time_ms
           /\ used_ms >= Max(1 * MS_ONE, RoundDiv(b.release_time_ms, 3))
           /\ ~b.adaptive_release_enabled =>
                  gain_coefficient(b.sample_rate, used_ms) = b.release_coeff
           /\ cd.envelope_buf = by_rule.envelope_buf
           /\ cd.envelope = by_rule.envelope

\* a block released with a time strictly between base / 3 and the base time:
\* the change rate times 15 lies strictly between 1 and 3, and the envelope fell
C26_Witness ==
    /\ Processed
    /\ GainStageRan
    /\ call.before.adaptive_release_enabled
    /\ calculate_env_change_rate(call.before) * 15 > ONE
    /\ calculate_env_change_rate(call.before) * 15 < 3 * ONE
    /\ current_release_coeff(call.before) < call.before.release_coeff
    /\ cd.envelope < call.before.envelope
    /\ cd.envelope > 0

\* C27: in every state the envelope and every value of the scratch buffer are
\* finite and not negative, whatever the samples were (NaN and infinities
\* included): a level that is not finite counts as 0, and a smoothing result
\* that is not finite, or below the epsilon, is stored as 0.
C27_EnvelopeFinite ==
    state = "live" =>
        /\ isfinite(cd.envelope) /\ cd.envelope >= 0
        /\ \A i \in 1 .. Len(cd.envelope_buf) :
               isfinite(cd.envelope_buf[i]) /\ cd.envelope_buf[i] >= 0
        /\ (Processed /\ GainStageRan) =>
               \A i \in 1 .. call.in.frames :
                   (\A c \in Active(call.in) : ~isfinite(call.in.data[c][i])) =>
                       cd.envelope_buf[i] <= (IF i = 1 THEN call.before.envelope
                                              ELSE cd.envelope_buf[i - 1])

\* a block that opens with NaN on one plane and an infinity on the other, given
\* to an engine whose envelope was up: the envelope falls over the first index
\* as for a level of 0 and rises again with the finite samples that follow
C27_Witness ==
    /\ Processed
    /\ GainStageRan
    /\ call.in.data[0][1] = NaN
    /\ call.in.data[1][1] = PInf
    /\ 1 \in Active(call.in)
    /\ call.before.envelope > 0
    /\ cd.envelope_buf[1] < call.before.envelope
    /\ cd.envelope > cd.envelope_buf[1]

\* C28: at every index of a block the gain stage works on, the gain-reduction
\* multiplier is 1 when the envelope is at or below the threshold and lies in
\* [0, 1] when it is above; every channel's sample at that index is multiplied
\* by the same final gain, the multiplier times the linear output gain, and a
\* sample that is not finite is set to 0 instead.
C28_GainRule ==
    (Processed /\ GainStageRan) =>
        \A i \in 1 .. call.in.frames :
            LET m == gain_reduction_multiplier(cd.threshold_db, cd.envelope_buf[i])
            IN /\ mul_to_db(cd.envelope_buf[i]) <= cd.threshold_db => m = ONE
               /\ m >= 0 /\ m <= ONE
               /\ \A c \in Active(call.in) :
                      audio.data[c][i] =
                          IF isfinite(DelayedPlanes[c][i])
                          THEN FMul(DelayedPlanes[c][i], FMul(m, cd.output_gain))
                          ELSE 0

\* C29: after the analysis of a block the scratch value of every index is the
\* largest, over the channels analysed, of the channel's own smoothed envelope
\* at that index, each channel's smoothing starting from the envelope the block
\* before ended on; the envelope is then the scratch value of the last index,
\* and that value is written to the history ring at the advanced cursor.
C29_ChannelMax ==
    (Processed /\ GainStageRan) =>
        \A own \in {[c \in Active(call.in) |->
                         channel_loop(call.before, current_release_coeff(call.before),
                                      call.in.data[c], call.in.frames, 0,
                                      call.before.envelope, Zeros(call.in.frames))]} :
            /\ \A i \in 1 .. call.in.frames :
                   /\ \A c \in Active(call.in) : cd.envelope_buf[i] >= own[c][i]
                   /\ \/ \E c \in Active(call.in) : cd.envelope_buf[i] = own[c][i]
                      \/ Active(call.in) = {} /\ cd.envelope_buf[i] = 0
            /\ cd.envelope = cd.envelope_buf[call.in.frames]
            /\ cd.prev_env_pos = (call.before.prev_env_pos + 1) % NUM_ENV_HISTORY
            /\ cd.prev_env_vals[cd.prev_env_pos] = cd.envelope

\* a second block on two planes, the second plane the louder one: the scratch
\* values follow the second plane's envelope, which started from the envelope
\* the first block left and lies above the first plane's at every index
C29_Witness ==
    /\ Processed
    /\ GainStageRan
    /\ n_audio >= 2
    /\ call.before.envelope > 0
    /\ Active(call.in) = {0, 1}
    /\ call.in.frames = 2
    /\ \A i \in 1 .. 2 :
           /\ cd.envelope_buf[i]
                  = channel_loop(call.before, current_release_coeff(call.before),
                                 call.in.data[1], 2, 0, call.before.envelope, Zeros(2))[i]
           /\ cd.envelope_buf[i]
                  > channel_loop(call.before, current_release_coeff(call.before),
                                 call.in.data[0], 2, 0, call.before.envelope, Zeros(2))[i]
    /\ cd.prev_env_vals[cd.prev_env_pos] = cd.envelope_buf[2]

\* C30: smoothing with the attack coefficient whenever the level is greater
\* than or equal to the envelope, and with the release coefficient when it is
\* strictly below, gives the envelope the engine computes: for every pair of a
\* level and an envelope, equal ones included, under the coefficients in
\* effect, and along every channel of every analysed block.
C30_AttackAtOrAbove ==
    state = "live" =>
        LET rule(a, r, env, level) ==
                LET e == level + RoundDiv((IF level >= env THEN a ELSE r) * (env - level),
                                          ONE)
                IN IF e < 0 THEN 0 ELSE e
        IN /\ \A env \in {0, 1, ONE \div 4, ONE \div 2, ONE, 2 * ONE, FLT_MAX} :
                  \A level \in {0, 1, ONE \div 4, ONE \div 2, ONE, 2 * ONE, FLT_MAX} :
                      smooth(cd.attack_coeff, current_release_coeff(cd), env, level)
                          = rule(cd.attack_coeff, current_release_coeff(cd), env, level)
           /\ (Processed /\ GainStageRan /\ Active(call.in) # {}) =>
                  \A rc \in {current_release_coeff(call.before)} :
                  \A own \in {[c \in Active(call.in) |->
                                   channel_loop(call.before, rc, call.in.data[c],
                                                call.in.frames, 0, call.before.envelope,
                                                Zeros(call.in.frames))]} :
                      \A i \in 1 .. call.in.frames :
                          /\ \E c \in Active(call.in) : cd.envelope_buf[i] = own[c][i]
                          /\ \A c \in Active(call.in) :
                                 own[c][i]
                                     = rule(cd.attack_coeff, rc,
                                            IF i = 1 THEN call.before.envelope
                                            ELSE own[c][i - 1],
                                            input_env(cd, call.in.data[c], i - 1,
                                                      call.in.frames))

\* a block of a constant level given to an envelope that had settled on that
\* level: level and envelope are equal at every index and the envelope stays
C30_Witness ==
    /\ Processed
    /\ GainStageRan
    /\ Level > 0
    /\ call.before.envelope = Level
    /\ \A i \in 1 .. call.in.frames : cd.envelope_buf[i] = Level
    /\ cd.attack_coeff # current_release_coeff(call.before)

\* C31: with true peak enabled, the level of index i of a block is the
\* inter-sample estimate of samples i and i + 1 for every index but the last,
\* and the absolute value of the sample for the last index (a level that is
\* not finite counting as 0); the levels of a block are made of the samples of
\* that block alone, at indices below its frame count, for every frame count
\* from 1 on. Stated along each channel's own envelope trajectory.
C31_BlockLocalLevel ==
    (Processed /\ GainStageRan /\ cd.true_peak_enabled) =>
        \A rc \in {current_release_coeff(call.before)} :
        \A own \in {[c \in Active(call.in) |->
                         channel_loop(call.before, rc, call.in.data[c], call.in.frames, 0,
                                      call.before.envelope, Zeros(call.in.frames))]} :
            \A c \in Active(call.in) :
                /\ DOMAIN call.in.data[c] = 1 .. call.in.frames
                /\ \A i \in 1 .. call.in.frames :
                       \A raw \in {IF i < call.in.frames
                                   THEN get_inter_sample_peak_estimate(call.in.data[c][i],
                                                                       call.in.data[c][i + 1])
                                   ELSE fabsf(call.in.data[c][i])} :
                           own[c][i] = smooth(cd.attack_coeff, rc,
                                              IF i = 1 THEN call.before.envelope
                                              ELSE own[c][i - 1],
                                              IF isfinite(raw) THEN raw ELSE 0)

\* a block of a single non-zero sample analysed with true peak on, right after
\* a block of the same stream that ended on a non-zero sample
C31_Witness ==
    /\ Processed
    /\ GainStageRan
    /\ cd.true_peak_enabled
    /\ call.in.frames = 1
    /\ \E c \in Active(call.in) :
           /\ call.in.data[c][1] # 0
           /\ Len(hist[c]) > 1
           /\ hist[c][Len(hist[c]) - 1] # 0
           /\ cd.envelope_buf[1] > 0

\* C32 (as stated): lookahead_samples is sample_rate * lookahead_time_ms / 1000
\* rounded to the nearest integer, at least 1, when lookahead is enabled with a
\* time at or above its minimum and the channel count is non-zero, and 0
\* otherwise; a requested time below 0.1 ms with lookahead enabled is stored
\* as 0.1 ms; the stored lookahead time is 0 whenever lookahead is disabled.
C32_AsStated ==
    state = "live" =>
        /\ IF cd.lookahead_enabled /\ cd.lookahead_time_ms >= MIN_LOOKAHEAD_MS
                  /\ cd.num_channels > 0
           THEN /\ cd.lookahead_samples >= 1
                /\ \/ 2 * Abs(cd.lookahead_samples * MS_IN_S * MS_ONE
                                  - cd.sample_rate * cd.lookahead_time_ms)
                          <= MS_IN_S * MS_ONE
                   \/ /\ cd.lookahead_samples = 1
                      /\ 2 * cd.sample_rate * cd.lookahead_time_ms < MS_IN_S * MS_ONE
           ELSE cd.lookahead_samples = 0
        /\ (settings.lookahead_enabled /\ settings.lookahead_time_ms < MIN_LOOKAHEAD_MS)
               => cd.lookahead_time_ms = MIN_LOOKAHEAD_MS
        /\ ~cd.lookahead_enabled => cd.lookahead_time_ms = 0

\* C32: lookahead_samples is sample_rate * lookahead_time_ms / 1000 rounded to
\* the nearest integer, at least 1, when lookahead is enabled with a time at or
\* above its minimum and the channel count is non-zero, and 0 otherwise; a
\* requested time below 0.1 ms with lookahead enabled is stored as 0.1 ms; the
\* stored lookahead time is 0 when the settings disable lookahead, and when a
\* failed ring rebuild has disabled it the stored time stays at the requested
\* value (within 0.1 .. 20 ms).
C32_LookaheadSamples ==
    state = "live" =>
        /\ IF cd.lookahead_enabled /\ cd.lookahead_time_ms >= MIN_LOOKAHEAD_MS
                  /\ cd.num_channels > 0
           THEN /\ cd.lookahead_samples >= 1
                /\ \/ 2 * Abs(cd.lookahead_samples * MS_IN_S * MS_ONE
                                  - cd.sample_rate * cd.lookahead_time_ms)
                          <= MS_IN_S * MS_ONE
                   \/ /\ cd.lookahead_samples = 1
                      /\ 2 * cd.sample_rate * cd.lookahead_time_ms < MS_IN_S * MS_ONE
           ELSE cd.lookahead_samples = 0
        /\ (settings.lookahead_enabled /\ settings.lookahead_time_ms < MIN_LOOKAHEAD_MS)
               => cd.lookahead_time_ms = MIN_LOOKAHEAD_MS
        /\ ~settings.lookahead_enabled => cd.lookahead_time_ms = 0
        /\ (settings.lookahead_enabled /\ ~cd.lookahead_enabled)
               => /\ config.rebuild_failed
                  /\ cd.lookahead_time_ms
                         = Max(MIN_LOOKAHEAD_MS,
                               Min(MAX_LOOKAHEAD_MS, settings.lookahead_time_ms))

\* a configure at 48000 Hz asking for lookahead with a time of 0: the time is
\* stored as 0.1 ms and 4.8 samples are rounded up to 5
C32_Witness ==
    /\ state = "live"
    /\ call.op \in {"create", "update"}
    /\ settings.lookahead_enabled
    /\ settings.lookahead_time_ms < MIN_LOOKAHEAD_MS
    /\ cd.lookahead_enabled
    /\ cd.sample_rate = FALLBACK_SAMPLE_RATE
    /\ cd.lookahead_time_ms = MIN_LOOKAHEAD_MS
    /\ cd.lookahead_samples = 5

\* C33: across every filter_audio and update call that leaves a scratch buffer
\* (its allocation did not fail) the length of the buffer does not decrease;
\* the length changes only when the call needs more than the current length
\* (a block of more frames, or the initial allocation of update when there is
\* no buffer), and then becomes the length needed; after a block has been
\* analysed the length is at least the block's frame count.
C33_ScratchGrowOnly ==
    [][(state' = "live" /\ cd'.envelope_buf # <<>>) =>
           /\ cd'.envelope_buf_len >= cd.envelope_buf_len
           /\ cd'.envelope_buf_len = Len(cd'.envelope_buf)
           /\ cd'.envelope_buf_len # cd.envelope_buf_len =>
                  \/ /\ call'.op = "filter_audio"
                     /\ ~call'.passthrough
                     /\ call'.in.frames > cd.envelope_buf_len
                     /\ cd'.envelope_buf_len = call'.in.frames
                  \/ /\ call'.op = "update"
                     /\ cd.envelope_buf = <<>>
                     /\ cd'.envelope_buf_len
                            = (cd'.sample_rate * INITIAL_ENV_BUF_MS) \div MS_IN_S
           /\ (call'.op = "filter_audio" /\ ~call'.passthrough) =>
                  cd'.envelope_buf_len >= call'.in.frames]_vars

\* a block of more frames than the buffer holds has grown it to its frame
\* count, and an earlier block had been analysed in the shorter buffer
C33_Witness ==
    /\ Processed
    /\ n_audio >= 2
    /\ call.before.envelope_buf # <<>>
    /\ call.before.envelope_buf_len < call.in.frames
    /\ cd.envelope_buf_len = call.in.frames
    /\ cd.envelope_buf_len = LongFrames

\* C34: on an open properties view, after any sequence of property callbacks
\* (preset selections, parameter edits, lookahead toggles), the lookahead-time
\* slider is visible exactly when the lookahead_enabled setting is true.
C34_SliderTracksToggle ==
    (state = "live" /\ props.open) =>
        (props.time_slider_visible <=> settings.lookahead_enabled)

\* C35: in every state reached through create, update and filter_audio, when
\* lookahead_buffers_initialized is set, lookahead is enabled, lookahead_samples
\* is at least 1, the channel count is at least 1 and every channel below the
\* channel count has a ring of non-zero capacity holding at least one sample;
\* so a block that finds lookahead active never takes the "ring not
\* initialized" fallback: every channel with a plane goes through its ring.
C35_FlagImpliesRings ==
    state = "live" =>
        /\ cd.lookahead_buffers_initialized =>
               /\ cd.lookahead_enabled
               /\ cd.lookahead_samples >= 1
               /\ cd.num_channels >= 1
               /\ \A c \in Channels :
                      c < cd.num_channels =>
                          /\ cd.lookahead_circbuf[c].capacity > 0
                          /\ Len(cd.lookahead_circbuf[c].data) >= 1
        /\ (Processed /\ lookahead_active(call.before)) =>
               /\ call.lookahead_active
               /\ call.pushed = Active(call.in)

\* a block of two channels delayed through rings that an update rebuilt
C35_Witness ==
    /\ Processed
    /\ n_update >= 1
    /\ cd.lookahead_buffers_initialized
    /\ cd.num_channels = 2
    /\ call.lookahead_active
    /\ call.pushed = {0, 1}

\* C36: when the scratch buffer cannot be grown for a block, the block is
\* neither analysed nor gained: the envelope, the history ring and its cursor
\* are as before the call and the buffer is gone; the output is what the delay
\* stage returns, with no reduction and no output gain on it; the delay stage
\* runs on every active channel when lookahead is active, and leaves each ring
\* with the number of samples it held; the next block for which the
\* allocation succeeds is analysed in a buffer of its frame count.
C36_GrowthFailure ==
    /\ (Processed /\ cd.envelope_buf = <<>>) =>
           /\ cd.envelope_buf_len = 0
           /\ cd.envelope = call.before.envelope
           /\ cd.prev_env_vals = call.before.prev_env_vals
           /\ cd.prev_env_pos = call.before.prev_env_pos
           /\ AllDelayed
           /\ audio.data = DelayedPlanes
           /\ \A c \in Channels :
                  Len(cd.lookahead_circbuf[c].data)
                      = Len(call.before.lookahead_circbuf[c].data)
    /\ (Processed /\ call.before.envelope_buf = <<>> /\ cd.envelope_buf # <<>>) =>
           /\ cd.envelope_buf_len = call.in.frames
           /\ GainStageRan
           /\ cd.prev_env_pos = (call.before.prev_env_pos + 1) % NUM_ENV_HISTORY

\* a block of more frames than the buffer holds, with a non-zero envelope left
\* by an earlier block and lookahead active, for which the growth failed
C36_Witness ==
    /\ Processed
    /\ cd.envelope_buf = <<>>
    /\ call.before.envelope_buf # <<>>
    /\ call.before.envelope_buf_len < call.in.frames
    /\ call.before.envelope > 0
    /\ cd.output_gain # ONE
    /\ call.lookahead_active
    /\ \E c \in call.pushed : \E i \in 1 .. call.in.frames : audio.data[c][i] # 0

\* C37: starting from the registered defaults, after any sequence of property
\* edits each followed by its modified callback, whenever the preset id names
\* one of the seven presets the seven settings equal that preset's documented
\* values.
C37_PresetIdTruthful ==
    (state = "live" /\ settings.preset \in DOMAIN Documented) =>
        Seven(settings) = Documented[settings.preset]

\* the music preset selected after two edits had made the settings Custom with
\* values of no preset
C37_Witness ==
    /\ PresetSelected
    /\ n_prop = 3
    /\ settings.preset = "music"
    /\ Seven(settings) = Documented["music"]
    /\ \A id \in DOMAIN Documented : Seven(call.before) # Documented[id]
    /\ call.before.output_gain = 5 * DB_ONE

\* C38: the coefficients lie in [0, 1], so one smoothing step gives an envelope
\* between the level and the previous envelope (inclusive), or 0: for every
\* pair of a level and an envelope under the coefficients in effect, and along
\* every channel of every analysed block.  Hence no scratch value of a block,
\* and neither the envelope it leaves, exceeds the larger of the envelope
\* before the block and the block's largest level so far; the envelope is 0
\* after a create and after a format reset, so it never exceeds the largest
\* level seen since.
C38_NoOvershoot ==
    state = "live" =>
        /\ cd.attack_coeff \in 0 .. ONE
        /\ cd.release_coeff \in 0 .. ONE
        /\ current_release_coeff(cd) \in 0 .. ONE
        /\ \A env \in {0, 1, ONE \div 4, ONE \div 2, ONE, 2 * ONE, FLT_MAX} :
               \A level \in {0, 1, ONE \div 4, ONE \div 2, ONE, 2 * ONE, FLT_MAX} :
                   \A e \in {smooth(cd.attack_coeff, current_release_coeff(cd), env, level)} :
                       e = 0 \/ (Min(env, level) <= e /\ e <= Max(env, level))
        /\ (call.op = "create" \/ (call.op = "update" /\ FormatDiffers)) => cd.envelope = 0
        /\ (Processed /\ GainStageRan) =>
               \A rc \in {current_release_coeff(call.before)} :
               \A own \in {[c \in Active(call.in) |->
                                channel_loop(call.before, rc, call.in.data[c],
                                             call.in.frames, 0, call.before.envelope,
                                             Zeros(call.in.frames))]} :
               \A lv \in {[c \in Active(call.in) |->
                              [i \in 1 .. call.in.frames |->
                                  input_env(cd, call.in.data[c], i - 1, call.in.frames)]]} :
                   /\ \A c \in Active(call.in) : \A i \in 1 .. call.in.frames :
                          \A prev \in {IF i = 1 THEN call.before.envelope
                                       ELSE own[c][i - 1]} :
                              \/ own[c][i] = 0
                              \/ /\ Min(prev, lv[c][i]) <= own[c][i]
                                 /\ own[c][i] <= Max(prev, lv[c][i])
                   /\ \A i \in 1 .. call.in.frames :
                          \/ cd.envelope_buf[i] <= call.before.envelope
                          \/ \E c \in Active(call.in) : \E j \in 1 .. i :
                                 cd.envelope_buf[i] <= lv[c][j]
                   /\ \/ cd.envelope <= call.before.envelope
                      \/ \E c \in Active(call.in) : \E j \in 1 .. call.in.frames :
                             cd.envelope <= lv[c][j]

\* a block whose envelope rises towards the level at one index, staying
\* strictly below it, and falls towards the level at the next, staying
\* strictly above it
C38_Witness ==
    /\ Processed
    /\ GainStageRan
    /\ call.in.frames >= 2
    /\ Active(call.in) = {0}
    /\ call.before.envelope < cd.envelope_buf[1]
    /\ cd.envelope_buf[1] < input_env(cd, call.in.data[0], 0, call.in.frames)
    /\ cd.envelope_buf[2] < cd.envelope_buf[1]
    /\ input_env(cd, call.in.data[0], 1, call.in.frames) < cd.envelope_buf[2]

C40_AsStated ==
    state = "live" =>
        \A a \in {0, 3, 0 - 3, 4, 0 - ONE \div 2, ONE, FLT_MAX, PInf, NaN} :
            \A b \in {0, 3, 0 - 3, 4, 0 - ONE \div 2, ONE, FLT_MAX, PInf, NaN} :
                get_inter_sample_peak_estimate(a, b)
                    = IF isfinite(a) /\ isfinite(b) THEN Max(Abs(a), Abs(b)) ELSE 0

\* C40: for all finite a and b the inter-sample peak estimate is at least
\* max(|a|, |b|) and exceeds it by at most one unit of the smallest step of the
\* number format, the rounding of the weighted samples; it is max(|a|, |b|)
\* whenever the weighted samples are exact, as they are for the samples of
\* every analysed block; it is 0 when a or b is not finite.
C40_PeakEstimate ==
    state = "live" =>
        /\ \A a \in {0, 3, 0 - 3, 4, 0 - ONE \div 2, ONE, FLT_MAX, PInf, NaN} :
               \A b \in {0, 3, 0 - 3, 4, 0 - ONE \div 2, ONE, FLT_MAX, PInf, NaN} :
                   \A est \in {get_inter_sample_peak_estimate(a, b)} :
                       IF isfinite(a) /\ isfinite(b)
                       THEN /\ est >= Max(Abs(a), Abs(b))
                            /\ est <= Max(Abs(a), Abs(b)) + 1
                            /\ (a % TP_OVERSAMPLE_FACTOR = 0 /\ b % TP_OVERSAMPLE_FACTOR = 0)
                                   => est = Max(Abs(a), Abs(b))
                       ELSE est = 0
        /\ (Processed /\ GainStageRan /\ cd.true_peak_enabled) =>
               \A c \in Active(call.in) : \A i \in 1 .. (call.in.frames - 1) :
                   input_env(cd, call.in.data[c], i - 1, call.in.frames)
                       = IF isfinite(call.in.data[c][i]) /\ isfinite(call.in.data[c][i + 1])
                         THEN Max(Abs(call.in.data[c][i]), Abs(call.in.data[c][i + 1]))
                         ELSE 0

\* a block analysed with true peak on in which a sample is followed by a
\* larger one, whose magnitude is the level of the pair; and two equal samples
\* of three units, whose midpoint is rounded to four
C40_Witness ==
    /\ Processed
    /\ GainStageRan
    /\ cd.true_peak_enabled
    /\ \E c \in Active(call.in) : \E i \in 1 .. (call.in.frames - 1) :
           /\ 0 < Abs(call.in.data[c][i])
           /\ Abs(call.in.data[c][i]) < Abs(call.in.data[c][i + 1])
           /\ input_env(cd, call.in.data[c], i - 1, call.in.frames)
                  = Abs(call.in.data[c][i + 1])
    /\ get_inter_sample_peak_estimate(3, 3) = 4

====
